---- MODULE Spec2Model ----
(***************************************************************************)
(* Incremental Gmail sync (backend/infrastructure/worker.py) and the       *)
(* leased AI summarization job queue (ai_summarizer_worker.py,             *)
(* supabase_store.py) of the intelligent-email-assistant backend.          *)
(*                                                                         *)
(* Tables of the durable store are sets / sequences of rows, every store   *)
(* call is one atomic step, and a store call that the code wraps in        *)
(* try/except may fail.                                                    *)
(***************************************************************************)
EXTENDS Integers, Sequences, FiniteSets, TLC

(***************************************************************************)
(* Bounds of the model.                                                    *)
(***************************************************************************)
NumMsgs == 2
NumWorkers == 2
MaxPos == 3
NumQueueMsgs == 1
NumClaimJobs == 3
MaxBatchSize == 2
MaxAudit == 2
NumBulkMsgs == 31
NumThreads == 4
MaxLines == 5
LimitMargin == 8
ClockStep == 30
ClockEnd == 720

Msgs == 1..NumMsgs
Workers == 1..NumWorkers
\* The threads that may run an AISummarizerWorker in the worker process; the
\* workers are the first NumWorkers of them.
Threads == 1..NumThreads
QueueMsgs == 1..NumQueueMsgs
BulkMsgs == 1..NumBulkMsgs

(***************************************************************************)
(* Program constants.                                                      *)
(***************************************************************************)
JOB_TYPE == "email_summarize_v1"
AI_MAX_ATTEMPTS == 5
AI_JOBS_BATCH == 5
BYPASS_THRESHOLD_TOKENS == 50
CHARS_PER_TOKEN == 4
ENQUEUE_LIMIT == 30
MAX_EMAILS_PER_CYCLE == 50
FULL_SYNC_MAX_EMAILS == 30
MAX_CONCURRENT_REQUESTS == 3
CACHE_TTL == 60
DEFAULT_MAX_EMAILS == 50
TTL_SECONDS == 120
DEGRADED_DWELL_SECONDS == 300
MAX_INPUT_TOKENS == 4000
PROMPT_OVERHEAD_TOKENS == 150
SAFE_INPUT_TOKENS == MAX_INPUT_TOKENS - PROMPT_OVERHEAD_TOKENS
CYCLE_INTERVAL_SECONDS == 60
ERROR_BACKOFF_SECONDS == 120
QUIET_BACKOFF_SECONDS == 600

\* A ladder without its last delay.
retry_delays_short == <<10, 30>>

RATE_LIMIT_RETRY_DELAYS == <<10, 30, 60>>

\* Python's None for an integer-valued column or local.
None == 0
NoTime == -1
NotCounted == -1

\* Instants are kept relative to the present, in minutes: datetime.now() is
\* always 0 and the passing of a minute (Tick) moves every stored instant
\* one minute into the past.  Stored instants are only ever compared with
\* now (run_after <= now), so an instant that is not in the future is kept
\* as 0.
now == 0

(***************************************************************************)
(* Message contents.  A content is one (subject, sender, body) triple a    *)
(* provider message can carry; the sample covers a metadata change         *)
(* (c1/c3), a raw body change that preprocessing removes (c1/c2) and a     *)
(* body too short to summarize (c4).  Beside the sample: an empty body     *)
(* (c5) and a long HTML body of which preprocessing leaves a short text    *)
(* (c6).                                                                   *)
(***************************************************************************)
Contents == {"c1", "c2", "c3", "c4"}

Subject(c) == IF c = "c3" THEN "s2" ELSE "s1"
Sender(c) == "alice"
Body(c) ==
    CASE c = "c1" -> "longA"
      [] c = "c2" -> "longA_sig"
      [] c = "c3" -> "longA"
      [] c = "c5" -> ""
      [] c = "c6" -> "html_short"
      [] OTHER    -> "short"

\* len(text) of the sample texts.
Chars(text) ==
    CASE text = "longA"     -> 400
      [] text = "longA_sig" -> 480
      [] text = "short"     -> 40
      [] text = "html_short" -> 600
      [] text = "Empty email" -> 11
      [] text = "model overview" -> 120
      [] OTHER              -> 0

\* EmailPreprocessor.preprocess followed by _mask_pii: the signature block of
\* "longA_sig" is removed, the other sample bodies have nothing to strip.
preprocess_and_prepare(text) ==
    IF text = "longA_sig" THEN "longA"
    ELSE IF text = "html_short" THEN "short" ELSE text

estimate_tokens(text) ==
    IF Chars(text) = 0 THEN 0 ELSE Chars(text) \div CHARS_PER_TOKEN

should_bypass_summarization(text) ==
    estimate_tokens(text) < BYPASS_THRESHOLD_TOKENS

\* SHA-256 is modelled as collision free: the digest is the hashed string
\* itself (a sequence of its pieces) under a tag.
compute_input_hash(masked_input) == <<"sha256">> \o masked_input

\* hashed_input = f"Subject: {subject}\nFrom: {sender}\n\n{prepared_body}"
hashed_input(c) ==
    <<"Subject: ", Subject(c), "From: ", Sender(c), preprocess_and_prepare(Body(c))>>

\* The input_hash process_job computes for an email row with content c: on
\* the short-content bypass it hashes prepared_body alone.
job_input_hash(c) ==
    IF should_bypass_summarization(preprocess_and_prepare(Body(c)))
    THEN compute_input_hash(<<preprocess_and_prepare(Body(c))>>)
    ELSE compute_input_hash(hashed_input(c))

Min(a, b) == IF a <= b THEN a ELSE b

\* text[:n]: the text a sample text is cut from and the characters kept.
first_chars(text, n) == [of |-> text, chars |-> Min(Chars(text), n)]

\* A summary that keeps the whole body.
minimal_summary_whole_body(body) ==
    [overview |-> first_chars(body, Chars(body)), action_items |-> <<>>, urgency |-> "low"]

\* The summary_json process_job builds on the short-content bypass:
\* overview = body[:200] if body else "Empty email".
minimal_summary(body) ==
    [overview |-> IF Chars(body) > 0 THEN first_chars(body, 200)
                  ELSE first_chars("Empty email", 11),
     action_items |-> <<>>,
     urgency |-> "low"]

\* No summary_json yet.
NoSummary == [overview |-> first_chars("", 0), action_items |-> <<>>, urgency |-> "none"]

(***************************************************************************)
(* TokenCounter (services/token_counter.py) on texts as sequences of       *)
(* characters, in the mode ENGLISH (chars_per_token = 4.0).                *)
(***************************************************************************)
\* "\n"
NL == "\n"

\* text.strip() == "": only white space.
IsBlank(chars) == \A k \in 1..Len(chars) : chars[k] \in {NL, " "}

\* TokenCounter.estimate_tokens: 0 for a blank text, else
\* int(len(text) / chars_per_token).
estimate_tokens_chars(chars) ==
    IF IsBlank(chars) THEN 0 ELSE Len(chars) \div CHARS_PER_TOKEN

RECURSIVE split_lines(_)
\* text.split('\n')
split_lines(chars) ==
    IF \A k \in 1..Len(chars) : chars[k] # NL THEN <<chars>>
    ELSE LET k == CHOOSE i \in 1..Len(chars) :
                     chars[i] = NL /\ \A j \in 1..(i - 1) : chars[j] # NL
         IN <<SubSeq(chars, 1, k - 1)>> \o split_lines(SubSeq(chars, k + 1, Len(chars)))

RECURSIVE join_lines(_)
\* '\n'.join(lines)
join_lines(lines) ==
    IF lines = <<>> THEN <<>>
    ELSE IF Len(lines) = 1 THEN lines[1]
    ELSE lines[1] \o <<NL>> \o join_lines(Tail(lines))

\* lines[:n]
SliceTo(lines, n) == SubSeq(lines, 1, Min(n, Len(lines)))

\* lines[-n:]; with n = 0 the slice starts at index 0 and is the whole list.
SliceLast(lines, n) ==
    IF n = 0 THEN lines ELSE SubSeq(lines, Len(lines) - Min(n, Len(lines)) + 1, Len(lines))

\* "...[content truncated for length]..."
CUT_MARKER == <<".", ".", ".", "[", "c", "o", "n", "t", "e", "n", "t", " ", "t", "r", "u", "n", "c", "a", "t", "e", "d", " ", "f", "o", "r", " ", "l", "e", "n", "g", "t", "h", "]", ".", ".", ".">>
\* "...[truncated]"
HARD_MARKER == <<".", ".", ".", "[", "t", "r", "u", "n", "c", "a", "t", "e", "d", "]">>

\* int(total_lines * 0.20) and int(total_lines * 0.40)
first_keep_lines(total_lines) == (total_lines * 20) \div 100
last_keep_lines(total_lines) == (total_lines * 40) \div 100

\* The head-and-tail cut: the first 20% of the lines, the marker, the last 40%.
head_tail_cut(chars) ==
    LET lines == split_lines(chars) IN
    join_lines(SliceTo(lines, first_keep_lines(Len(lines))) \o <<CUT_MARKER>>
                   \o SliceLast(lines, last_keep_lines(Len(lines))))

\* TokenCounter.smart_truncate(text, target_tokens): the text it returns and
\* stats["truncated"].
smart_truncate(chars, target_tokens) ==
    IF estimate_tokens_chars(chars) <= target_tokens
    THEN [text |-> chars, truncated |-> FALSE]
    ELSE LET target_chars == target_tokens * CHARS_PER_TOKEN
             cut == head_tail_cut(chars)
         IN IF estimate_tokens_chars(cut) > target_tokens
            THEN [text |-> SubSeq(chars, 1, Min(target_chars, Len(chars))) \o HARD_MARKER,
                  truncated |-> TRUE]
            ELSE [text |-> cut, truncated |-> TRUE]

\* No call of smart_truncate has returned yet.
NoResult == [done |-> FALSE, text |-> <<>>, truncated |-> FALSE]

\* TokenCounter.estimate_tokens of a text of the given length: 0 for an
\* empty or blank text, else int(len / 4.0).
estimate_of_length(text) ==
    IF text.chars = 0 \/ text.blank THEN 0 ELSE text.chars \div CHARS_PER_TOKEN

\* TokenCounter.check_limits: (is_within_limits, estimated_tokens, message).
check_limits(text) ==
    LET estimated == estimate_of_length(text) IN
    IF estimated <= SAFE_INPUT_TOKENS
    THEN [within |-> TRUE, estimate |-> estimated, message |-> "OK"]
    ELSE IF estimated <= MAX_INPUT_TOKENS
    THEN [within |-> TRUE, estimate |-> estimated, message |-> "WARNING"]
    ELSE [within |-> FALSE, estimate |-> estimated, message |-> "EXCEEDS LIMIT"]

NoLimits == [done |-> FALSE, within |-> FALSE, estimate |-> 0, message |-> "none",
             truncated |-> FALSE]
NoText == [chars |-> 0, blank |-> FALSE]

(***************************************************************************)
(* State.                                                                  *)
(***************************************************************************)
VARIABLES
    ai_jobs,             \* table ai_jobs: sequence of rows, id = index
    emails,              \* table emails: set of rows
    email_ai_summaries,  \* table email_ai_summaries: set of rows
    wpc,                 \* worker -> position in process_batch / process_job
    batch_size,          \* worker -> the batch size its process_batch asks for
    batch,               \* worker -> jobs returned by its last claim, not yet processed
    email_row,           \* worker -> content of the email row fetched for the current job
    err,                 \* worker -> error code process_job hands to _mark_job_failed
    model_calls,         \* worker -> model-provider calls made so far for the current job
    api_semaphore,       \* AISummarizerWorker._api_semaphore: the permits left
    retry_attempt,       \* worker -> loop variable of _call_mistral
    slept,               \* worker -> the delays _call_mistral slept so far, in order
    call_kinds,          \* worker -> what each invocation of the current _call_mistral answered
    invocations,         \* model invocations of all workers since Init (NotCounted: no count is kept)
    summary_json,        \* worker -> the summary_json of process_job for the current job
    emit_failed,         \* worker -> its last sio.emit("ai_summary_ready") raised
    job_log,             \* job id -> what the history of the row was (see NewLog)
    summarized_at_claim, \* worker -> per job of its batch, job_log's summarized when it was claimed
    history,             \* provider change log: history[p] is the change made at position p
    gmail_sync_state,    \* table gmail_sync_state: last_history_id of ("primary", "default")
    spc,                 \* position of run_worker_loop in its cycle
    last_cursor,         \* local of the cycle
    current_cursor,      \* local of the cycle
    cycle_emails,        \* local `emails` of the cycle, the part not yet ingested
    written_count,       \* local of the cycle
    changed_ids,         \* local of the cycle: ids extracted from the change list
    ingested,            \* messages the cycle wrote and enqueued a job for
    position_at_start,   \* provider position the current (or last finished) cycle read at its start
    audit_log,           \* table audit_log: sequence of rows
    emitted,             \* local of the cycle: the emails_updated event went out
    mode,                \* the case the current (or last finished) cycle took (see SyncCycleStart)
    written_ids,         \* messages the cycle wrote with save_email
    fetched_ids,         \* the ids the cycle called get_message with, in call order
    auth_signalled,      \* a provider call of the current (or last finished) cycle answered invalid_grant
    sleep_seconds,       \* the time.sleep that ended the last cycle (0 while a cycle runs)
    emit_count,          \* "count" of the emails_updated event of the cycle (0 without event)
    summarize_calls,     \* model-provider calls the current (or last finished) cycle made
    trunc_input,         \* smart_truncate: the text it is called with
    trunc_target,        \* smart_truncate: target_tokens
    trunc_result,        \* smart_truncate: what it returned (see SmartTruncate)
    limit_text,          \* _preprocess_and_prepare: len() of the preprocessed text, and whether it is blank
    limit_result,        \* _preprocess_and_prepare: what check_limits returned and whether it truncated
    AIState,             \* ai_state.py: the class variables _state, _initialized, _last_checked, _degraded_since
    clock,               \* time.time(), in seconds
    AI_ENABLED,          \* os.getenv("AI_ENABLED"): FALSE when it reads "false"
    MISTRAL_API_KEY,     \* os.getenv("MISTRAL_API_KEY"): TRUE when set and not blank
    state_returned,      \* what the last call of AIState.state() returned ("none": no call since)
    entered_degraded,    \* ghost: the time at which _state last became DEGRADED
    client,              \* Summarizer.client is set
    gate,                \* Summarizer.summarize: its local state = AIState.state()
    summary_text,        \* what the last call of Summarizer.summarize returned ("none": no call
                         \* since; "calling": it is inside client.chat.complete)
    provider_called,     \* whether that call of summarize reached client.chat.complete
    system_config,       \* store: the value of the global_policy row of system_config
    policy_cache,        \* ControlPlane._policy_cache
    last_fetch,          \* ControlPlane._last_fetch
    policy_answer,       \* what the last call of _get_policy returned
    fetch_result,        \* how that call got it: "cached", "ok", "failed" ("idle": no call since)
    last_good            \* ghost: the last successful fetch, [fetched, at, policy]

limitVars == <<limit_text, limit_result>>
aiVars == <<AIState, clock, AI_ENABLED, MISTRAL_API_KEY, state_returned, entered_degraded,
            client, gate, summary_text, provider_called>>
policyVars == <<system_config, policy_cache, last_fetch, policy_answer, fetch_result,
                last_good>>
truncVars == <<trunc_input, trunc_target, trunc_result, limitVars, aiVars, policyVars>>

\* The class variables of AIState before the first access.
Uninitialized ==
    [state |-> "none", initialized |-> FALSE, last_checked |-> 0, degraded_since |-> 0]

\* AIState never accessed, no Summarizer call made.
AiIdle ==
    /\ AIState = Uninitialized /\ clock = 0 /\ AI_ENABLED = TRUE
    /\ MISTRAL_API_KEY = TRUE /\ state_returned = "none" /\ entered_degraded = 0
    /\ client = TRUE /\ gate = "none" /\ summary_text = "none" /\ provider_called = FALSE

\* A policy is a dict: a function from some of the policy keys.
EmptyPolicy == [k \in {} |-> TRUE]

\* The dict _get_policy returns when it has nothing else.
DefaultPolicy ==
    [worker_enabled |-> TRUE, max_emails_per_cycle |-> DEFAULT_MAX_EMAILS,
     tenant_quota_enabled |-> FALSE]

\* No fetch has succeeded.
NeverFetched == [fetched |-> FALSE, at |-> 0, policy |-> EmptyPolicy]

\* ControlPlane before its first call of _get_policy.
PolicyIdle ==
    /\ system_config = EmptyPolicy /\ policy_cache = EmptyPolicy /\ last_fetch = 0
    /\ policy_answer = EmptyPolicy /\ fetch_result = "idle" /\ last_good = NeverFetched

\* No text has been through _preprocess_and_prepare.
LimitIdle == limit_text = NoText /\ limit_result = NoLimits
callVars == <<api_semaphore, retry_attempt, slept, call_kinds>>
workerVars == <<wpc, batch_size, batch, email_row, err, model_calls, summarized_at_claim,
                api_semaphore, retry_attempt, slept, call_kinds, invocations,
                summary_json, emit_failed>>
syncVars == <<gmail_sync_state, spc, last_cursor, current_cursor, cycle_emails,
              written_count, changed_ids, ingested, position_at_start, audit_log, emitted,
              mode, written_ids, fetched_ids, auth_signalled, sleep_seconds, emit_count,
              summarize_calls>>
vars == <<ai_jobs, emails, email_ai_summaries, wpc, batch_size, batch, email_row, err,
          model_calls, api_semaphore, retry_attempt, slept, call_kinds, invocations, summary_json,
          emit_failed, job_log,
          summarized_at_claim, history, gmail_sync_state, spc, last_cursor,
          current_cursor, cycle_emails, written_count, changed_ids, ingested,
          position_at_start, audit_log, emitted, mode, written_ids, fetched_ids,
          auth_signalled, sleep_seconds, emit_count, summarize_calls, trunc_input,
          trunc_target, trunc_result, limit_text, limit_result, AIState, clock, AI_ENABLED,
          MISTRAL_API_KEY, state_returned, entered_degraded, client, gate, summary_text,
          provider_called, system_config, policy_cache, last_fetch, policy_answer,
          fetch_result, last_good>>

pipelineVars == <<ai_jobs, emails, email_ai_summaries, workerVars, job_log, history, syncVars>>

JobIds == 1..Len(ai_jobs)

\* 2 ** n
Pow2(n) == IF n = 0 THEN 1 ELSE IF n = 1 THEN 2 ELSE IF n = 2 THEN 4
           ELSE IF n = 3 THEN 8 ELSE IF n = 4 THEN 16 ELSE 32

RECURSIVE SortedSeq(_)
\* The elements of a finite set of integers in increasing order.
SortedSeq(S) ==
    IF S = {} THEN <<>>
    ELSE LET x == CHOOSE y \in S : \A z \in S : y <= z
         IN <<x>> \o SortedSeq(S \ {x})

(***************************************************************************)
(* SupabaseStore.enqueue_ai_job: upsert on the unique index                *)
(* (job_type, account_id, gmail_message_id).  The payload carries status,  *)
(* attempts, run_after (and created_at / updated_at); on a conflict the    *)
(* upsert overwrites exactly the payload's columns of the existing row,    *)
(* whatever its status; without a conflict it inserts a row whose other    *)
(* columns take their defaults.                                            *)
(***************************************************************************)
Conflicts(row, job_type, gmail_message_id) ==
    /\ row.job_type = job_type
    /\ row.gmail_message_id = gmail_message_id

NewJobRow(job_type, gmail_message_id, t) ==
    [job_type |-> job_type, gmail_message_id |-> gmail_message_id,
     status |-> "queued", attempts |-> 0, run_after |-> t,
     locked_by |-> None, locked_at |-> NoTime, last_error_code |-> "none"]

\* A plain insert, as if the table had no unique index to conflict on.
enqueue_insert_only(jobs, job_type, gmail_message_id, t) ==
    Append(jobs, NewJobRow(job_type, gmail_message_id, t))

\* The table after the upsert.
enqueue_ai_job(jobs, job_type, gmail_message_id, t) ==
    IF \E i \in 1..Len(jobs) : Conflicts(jobs[i], job_type, gmail_message_id)
    THEN [i \in 1..Len(jobs) |->
            IF Conflicts(jobs[i], job_type, gmail_message_id)
            THEN [jobs[i] EXCEPT !.status = "queued", !.attempts = 0, !.run_after = t]
            ELSE jobs[i]]
    ELSE Append(jobs, NewJobRow(job_type, gmail_message_id, t))

\* job_log keeps, for every row of ai_jobs, what the row itself forgets:
\*   succeeded_hash  input hashes of the processings that marked the row
\*                   succeeded since it last became succeeded
\*   failed_until    run_after as the last failure set it (NoTime before
\*                   the first failure and after a success)
\*   summarized      input hashes for which the job was marked succeeded
\*                   after a model call, since the email's subject, sender
\*                   and preprocessed body last changed
NewLog == [succeeded_hash |-> {}, failed_until |-> NoTime, summarized |-> {}]

\* job_log after a store call that turned ai_jobs into jobs2.
GhostAfter(jobs2) ==
    [i \in 1..Len(jobs2) |->
        IF i > Len(ai_jobs) THEN NewLog
        ELSE IF jobs2[i].status = "succeeded" /\ ai_jobs[i].status = "succeeded"
        THEN job_log[i]
        ELSE [job_log[i] EXCEPT !.succeeded_hash = {}]]

(***************************************************************************)
(* SupabaseStore.save_email with a message id: upsert on                   *)
(* (account_id, gmail_message_id).                                         *)
(***************************************************************************)
\* An insert without on_conflict: a second row for the message.
save_email_insert(tbl, gmail_message_id, c) ==
    tbl \cup {[gmail_message_id |-> gmail_message_id, content |-> c]}

save_email(tbl, gmail_message_id, c) ==
    IF \E r \in tbl : r.gmail_message_id = gmail_message_id
    THEN {IF r.gmail_message_id = gmail_message_id
          THEN [r EXCEPT !.content = c] ELSE r : r \in tbl}
    ELSE tbl \cup {[gmail_message_id |-> gmail_message_id, content |-> c]}

\* The same summarizer input: subject, sender and preprocessed body.
SameInput(c1, c2) ==
    /\ Subject(c1) = Subject(c2)
    /\ Sender(c1) = Sender(c2)
    /\ preprocess_and_prepare(Body(c1)) = preprocess_and_prepare(Body(c2))

\* The log after save_email(gmail_message_id, c): a changed summarizer input
\* empties summarized of the message's job.
LogAfterSave(log, jobs, gmail_message_id, c) ==
    [i \in 1..Len(log) |->
        IF /\ jobs[i].gmail_message_id = gmail_message_id
           /\ \E r \in emails : r.gmail_message_id = gmail_message_id /\ ~SameInput(r.content, c)
        THEN [log[i] EXCEPT !.summarized = {}]
        ELSE log[i]]

(***************************************************************************)
(* RPC ai_claim_jobs(p_job_type, p_limit, p_worker_id): the stored         *)
(* procedure itself is not part of the Python sources; it is modelled      *)
(* from the durable-store contract: one atomic step that takes up to       *)
(* p_limit rows with status queued and run_after <= now, makes them   *)
(* running, stamps locked_by / locked_at and returns them.                 *)
(***************************************************************************)
Eligible(jobs, job_type, t) ==
    {i \in 1..Len(jobs) :
        /\ jobs[i].job_type = job_type
        /\ jobs[i].status = "queued"
        /\ jobs[i].run_after <= t}

\* The table after the procedure locked the rows S for worker_id.
ai_claim_jobs(jobs, S, worker_id, t) ==
    [i \in 1..Len(jobs) |->
        IF i \in S
        THEN [jobs[i] EXCEPT !.status = "running", !.locked_by = worker_id, !.locked_at = t]
        ELSE jobs[i]]

\* The job dict process_job reads: id, gmail_message_id, attempts.
JobDict(jobs, i) ==
    [id |-> i, gmail_message_id |-> jobs[i].gmail_message_id, attempts |-> jobs[i].attempts]

(***************************************************************************)
(* The AI summarizer worker (ai_summarizer_entry.main,                     *)
(* AISummarizerWorker.process_batch / process_job).  wpc[w]:               *)
(*   idle     before process_batch                                         *)
(*   fetch    process_job of Head(batch[w]) starts: _fetch_email_row       *)
(*   cache    _check_cache                                                 *)
(*   call     _call_mistral, waiting for a permit of the semaphore         *)
(*   invoke   _call_mistral, inside the with block                         *)
(*   write    _write_summary                                               *)
(*   succeed  _mark_job_succeeded                                          *)
(*   emit     sio.emit("ai_summary_ready") after a summary of the model    *)
(*   fail     _mark_job_failed                                             *)
(***************************************************************************)
CurJob(w) == Head(batch[w])

\* process_job returned: the for loop of process_batch takes the next job.
NextJob(w) ==
    /\ batch' = [batch EXCEPT ![w] = Tail(batch[w])]
    /\ wpc' = [wpc EXCEPT ![w] = IF Len(batch[w]) > 1 THEN "fetch" ELSE "idle"]
    /\ email_row' = [email_row EXCEPT ![w] = "none"]
    /\ err' = [err EXCEPT ![w] = "none"]
    /\ model_calls' = [model_calls EXCEPT ![w] = 0]
    /\ retry_attempt' = [retry_attempt EXCEPT ![w] = 0]
    /\ slept' = [slept EXCEPT ![w] = <<>>]
    /\ call_kinds' = [call_kinds EXCEPT ![w] = <<>>]
    /\ summary_json' = [summary_json EXCEPT ![w] = NoSummary]
    /\ api_semaphore' = api_semaphore
    /\ summarized_at_claim' = [summarized_at_claim EXCEPT ![w] = Tail(@)]

\* A select-then-return without the locking update: the rows are handed out
\* but stay queued.
claim_select_only(jobs, S, worker_id, t) == jobs

\* The rows claim_jobs leaves in the table when the RPC answered with the rows S.
claim_jobs(jobs, S, worker_id, t) == ai_claim_jobs(jobs, S, worker_id, t)

\* process_batch: claim_jobs(batch_size, worker_id); a failing RPC gives [].
ClaimJobs(w, rpc_ok) ==
    /\ wpc[w] = "idle"
    /\ LET E == Eligible(ai_jobs, JOB_TYPE, now) IN
       \E S \in SUBSET E :
          /\ Cardinality(S) = (IF rpc_ok THEN Min(batch_size[w], Cardinality(E)) ELSE 0)
          /\ LET jobs2 == claim_jobs(ai_jobs, S, w, now) IN
             /\ ai_jobs' = jobs2
             /\ job_log' = GhostAfter(jobs2)
             /\ batch' = [batch EXCEPT ![w] =
                            [k \in 1..Cardinality(S) |-> JobDict(jobs2, SortedSeq(S)[k])]]
             /\ summarized_at_claim' = [summarized_at_claim EXCEPT ![w] =
                            [k \in 1..Cardinality(S) |-> job_log[SortedSeq(S)[k]].summarized]]
          /\ wpc' = [wpc EXCEPT ![w] = IF S = {} THEN "idle" ELSE "fetch"]
    /\ UNCHANGED <<truncVars, emit_failed, invocations, summary_json, batch_size, emails, email_ai_summaries, email_row, err, model_calls, history,
                   callVars, syncVars>>

\* process_job step 1: _fetch_email_row; no row (or a failing select) fails
\* the job with EMAIL_NOT_FOUND.  With a row, _preprocess_and_prepare runs and
\* the short-content bypass goes straight to _write_summary.
FetchEmail(w, store_ok) ==
    /\ wpc[w] = "fetch"
    /\ LET rows == {r \in emails : r.gmail_message_id = CurJob(w).gmail_message_id} IN
         IF store_ok /\ rows # {}
         THEN \E r \in rows :
                /\ email_row' = [email_row EXCEPT ![w] = r.content]
                /\ wpc' = [wpc EXCEPT ![w] =
                     IF should_bypass_summarization(preprocess_and_prepare(Body(r.content)))
                     THEN "write" ELSE "cache"]
                /\ summary_json' = [summary_json EXCEPT ![w] =
                     IF should_bypass_summarization(preprocess_and_prepare(Body(r.content)))
                     THEN minimal_summary(Body(r.content)) ELSE @]
                /\ err' = err
         ELSE /\ wpc' = [wpc EXCEPT ![w] = "fail"]
              /\ err' = [err EXCEPT ![w] = "EMAIL_NOT_FOUND"]
              /\ UNCHANGED <<email_row, summary_json>>
    /\ UNCHANGED <<truncVars, emit_failed, invocations, batch_size, summarized_at_claim, ai_jobs, emails, email_ai_summaries, batch, job_log,
                   model_calls, history, callVars, syncVars>>

\* A cache that never hits.
check_cache_never(summaries, gmail_message_id, input_hash) == FALSE

\* process_job reads job["id"], job["account_id"] and job["gmail_message_id"]
\* before its try block: a job dict that lacks one of the keys raises
\* KeyError out of process_job and out of the for loop of process_batch; the
\* handler of main logs it, sleeps and calls process_batch again.  No store
\* call is made for the job or for the jobs behind it in the batch.
MalformedJob(w) ==
    /\ wpc[w] = "fetch"
    /\ wpc' = [wpc EXCEPT ![w] = "idle"]
    /\ batch' = [batch EXCEPT ![w] = <<>>]
    /\ summarized_at_claim' = [summarized_at_claim EXCEPT ![w] = <<>>]
    /\ UNCHANGED <<truncVars, emit_failed, invocations, summary_json, batch_size, ai_jobs, emails, email_ai_summaries,
                   email_row, err, job_log, model_calls, history, callVars, syncVars>>

\* _check_cache: True iff a summary row of the message has the same
\* input_hash; a failing select counts as a miss.
check_cache(summaries, gmail_message_id, input_hash) ==
    \E r \in summaries :
        r.gmail_message_id = gmail_message_id /\ r.input_hash = input_hash

\* A cache check made inside the with block: the permit is taken first.
CheckCacheHoldingPermit(w, store_ok) ==
    /\ wpc[w] = "cache"
    /\ api_semaphore > 0
    /\ api_semaphore' = api_semaphore - 1
    /\ wpc' = [wpc EXCEPT ![w] = "invoke"]
    /\ UNCHANGED <<truncVars, emit_failed, invocations, summary_json, batch_size, summarized_at_claim, ai_jobs, emails,
                   email_ai_summaries, batch, email_row, err, job_log, model_calls, history,
                   retry_attempt, slept, call_kinds, syncVars>>

CheckCache(w, store_ok) ==
    /\ wpc[w] = "cache"
    /\ wpc' = [wpc EXCEPT ![w] =
            IF store_ok /\ check_cache(email_ai_summaries, CurJob(w).gmail_message_id,
                                       job_input_hash(email_row[w]))
            THEN "succeed" ELSE "call"]
    /\ UNCHANGED <<truncVars, emit_failed, invocations, summary_json, batch_size, summarized_at_claim, ai_jobs, emails, email_ai_summaries, batch, email_row, err,
                   job_log, model_calls, history, callVars, syncVars>>

(***************************************************************************)
(* _call_mistral.  What one invocation (generate_json and the validation   *)
(* of its answer) gives is an outcome: its kind says what happened, its    *)
(* msg is str(e) of the exception raised, as a sequence of characters.     *)
(*   ok          generate_json returned a JSON object: the one of the      *)
(*               field json, or ModelAnswer when the outcome has none      *)
(*   rate_limit  HTTP 429 of the provider                                  *)
(*   error       any other failure                                         *)
(***************************************************************************)
OutcomeOk == [kind |-> "ok", msg |-> <<>>]

\* The JSON objects of the sample, as records; action_items is kept with
\* the answer of isinstance(..., list).
ModelAnswer ==
    [overview |-> "model overview", action_items |-> [list |-> TRUE, items |-> <<>>],
     urgency |-> "high"]
\* An urgency outside the enum.
AnswerBadUrgency == [ModelAnswer EXCEPT !.urgency = "critical"]
\* action_items that is no list.
AnswerItemsNoList == [ModelAnswer EXCEPT !.action_items = [list |-> FALSE, items |-> <<>>]]
\* No urgency.
AnswerNoUrgency ==
    [overview |-> "model overview", action_items |-> [list |-> TRUE, items |-> <<>>]]
\* No action_items, and a key of another name in its place.
AnswerOtherKey ==
    [overview |-> "model overview", separate_items |-> [list |-> TRUE, items |-> <<>>],
     urgency |-> "low"]

OutcomeBadUrgency == [kind |-> "ok", msg |-> <<>>, json |-> AnswerBadUrgency]
OutcomeItemsNoList == [kind |-> "ok", msg |-> <<>>, json |-> AnswerItemsNoList]
OutcomeNoUrgency == [kind |-> "ok", msg |-> <<>>, json |-> AnswerNoUrgency]
OutcomeOtherKey == [kind |-> "ok", msg |-> <<>>, json |-> AnswerOtherKey]

\* What generate_json returned.
ResponseOf(outcome) ==
    IF "json" \in DOMAIN outcome THEN outcome.json ELSE ModelAnswer

REQUIRED_KEYS == {"overview", "action_items", "urgency"}
URGENCY_VALUES == {"low", "medium", "high"}

\* required.issubset(summary_json.keys())
has_required_keys(json) == REQUIRED_KEYS \subseteq DOMAIN json

\* The characters of the key names of the sample.
KeyChars(k) ==
    CASE k = "overview" -> <<"o", "v", "e", "r", "v", "i", "e", "w">>
      [] k = "action_items" -> <<"a", "c", "t", "i", "o", "n", "_", "i", "t", "e", "m", "s">>
      [] k = "urgency" -> <<"u", "r", "g", "e", "n", "c", "y">>
      [] k = "separate_items" -> <<"s", "e", "p", "a", "r", "a", "t", "e", "_", "i", "t", "e", "m", "s">>

KeyOrder == <<"overview", "action_items", "separate_items", "urgency">>

RECURSIVE keys_text(_, _, _)
\* The key names of json that are among KeyOrder[k..], each in quotes, with
\* ", " between them (sep: a name was written before).
keys_text(json, k, sep) ==
    IF k > Len(KeyOrder) THEN <<>>
    ELSE IF KeyOrder[k] \in DOMAIN json
    THEN (IF sep THEN <<",", " ">> ELSE <<>>) \o <<"'">> \o KeyChars(KeyOrder[k]) \o <<"'">>
         \o keys_text(json, k + 1, TRUE)
    ELSE keys_text(json, k + 1, sep)

\* str(e) of ValueError(f"Missing required keys. Got: {summary_json.keys()}")
missing_keys_message(json) ==
    <<"M", "i", "s", "s", "i", "n", "g", " ", "r", "e", "q", "u", "i", "r", "e", "d", " ",
      "k", "e", "y", "s", ".", " ", "G", "o", "t", ":", " ",
      "d", "i", "c", "t", "_", "k", "e", "y", "s", "(", "[">>
    \o keys_text(json, 1, FALSE) \o <<"]", ")">>

\* What _call_mistral makes of an answer with the required keys: urgency
\* outside the enum becomes medium, action_items that is no list becomes [],
\* overview is cut to 200 characters and action_items to 5 items.
validate_answer(json) ==
    [overview |-> first_chars(json.overview, 200),
     action_items |-> IF json.action_items.list
                      THEN SubSeq(json.action_items.items, 1,
                                  Min(5, Len(json.action_items.items)))
                      ELSE <<>>,
     urgency |-> IF json.urgency \in URGENCY_VALUES THEN json.urgency ELSE "medium"]

\* The invocation returned a summary.
answered(outcome) == outcome.kind = "ok" /\ has_required_keys(ResponseOf(outcome))

\* str(e) of the exception of an invocation that returned no summary.
error_message(outcome) ==
    IF outcome.kind = "ok" THEN missing_keys_message(ResponseOf(outcome)) ELSE outcome.msg

\* What the invocation answered: ok, rate_limit, error, or invalid for a
\* JSON that lacks a required key.
answer_kind(outcome) ==
    IF outcome.kind = "ok" /\ ~has_required_keys(ResponseOf(outcome))
    THEN "invalid" ELSE outcome.kind
\* "Status 429"
Outcome429 == [kind |-> "rate_limit", msg |-> <<"S", "t", "a", "t", "u", "s", " ", "4", "2", "9">>]
\* "Rate limit exceeded"
OutcomeRateLimit == [kind |-> "rate_limit", msg |-> <<"R", "a", "t", "e", " ", "l", "i", "m", "i", "t", " ", "e", "x", "c", "e", "e", "d", "e", "d">>]
\* "timed out after 30s"
OutcomeTimeout == [kind |-> "error", msg |-> <<"t", "i", "m", "e", "d", " ", "o", "u", "t", " ", "a", "f", "t", "e", "r", " ", "3", "0", "s">>]
\* "Status 500: failed to generate"
OutcomeServerError == [kind |-> "error", msg |-> <<"S", "t", "a", "t", "u", "s", " ", "5", "0", "0", ":", " ", "f", "a", "i", "l", "e", "d", " ", "t", "o", " ", "g", "e", "n", "e", "r", "a", "t", "e">>]

InvokeOutcomes == {OutcomeOk, Outcome429, OutcomeRateLimit, OutcomeTimeout, OutcomeServerError}

\* str.lower() on the letters the messages hold in upper case.
Lower(text) ==
    [k \in 1..Len(text) |->
        CASE text[k] = "R" -> "r"
          [] text[k] = "S" -> "s"
          [] text[k] = "M" -> "m"
          [] text[k] = "G" -> "g"
          [] OTHER -> text[k]]

\* sub in text
Contains(text, sub) ==
    \E k \in 1..(Len(text) - Len(sub) + 1) : SubSeq(text, k, k + Len(sub) - 1) = sub

\* is_rate_limit = "429" in err_msg or "rate" in err_msg.lower()
is_rate_limit(err_msg) ==
    \/ Contains(err_msg, <<"4", "2", "9">>)
    \/ Contains(Lower(err_msg), <<"r", "a", "t", "e">>)

\* A release that gives nothing back.
release_nothing(permits) == permits

\* threading.Semaphore: acquire on entering the with block, release on
\* leaving it.
acquire(permits) == permits - 1
release(permits) == permits + 1

\* with self._api_semaphore: blocks while no permit is left.
AcquirePermit(w) ==
    /\ wpc[w] = "call"
    /\ api_semaphore > 0
    /\ api_semaphore' = acquire(api_semaphore)
    /\ retry_attempt' = [retry_attempt EXCEPT ![w] = 0]
    /\ wpc' = [wpc EXCEPT ![w] = "invoke"]
    /\ UNCHANGED <<truncVars, emit_failed, invocations, summary_json, batch_size, summarized_at_claim, ai_jobs, emails, email_ai_summaries, batch,
                   email_row, err, model_calls, slept, call_kinds, job_log, history, syncVars>>

\* One pass of the retry loop: generate_json; an answer with the required
\* keys returns the summary (a missing key raises ValueError inside the
\* try); a rate-limit error with a delay left on the ladder sleeps and
\* goes round again; any other failure returns None (MISTRAL_FAILED).  The
\* return leaves the with block.
CallMistral(w, outcome) ==
    /\ wpc[w] = "invoke"
    /\ model_calls' = [model_calls EXCEPT ![w] = @ + 1]
    /\ invocations' = IF invocations = NotCounted THEN NotCounted ELSE invocations + 1
    /\ call_kinds' = [call_kinds EXCEPT ![w] = Append(@, answer_kind(outcome))]
    /\ IF answered(outcome)
       THEN /\ wpc' = [wpc EXCEPT ![w] = "write"]
            /\ summary_json' = [summary_json EXCEPT ![w] = validate_answer(ResponseOf(outcome))]
            /\ api_semaphore' = release(api_semaphore)
            /\ UNCHANGED <<err, retry_attempt, slept>>
       ELSE IF /\ is_rate_limit(error_message(outcome))
               /\ retry_attempt[w] < Len(RATE_LIMIT_RETRY_DELAYS)
       THEN /\ slept' = [slept EXCEPT ![w] = Append(@, RATE_LIMIT_RETRY_DELAYS[retry_attempt[w] + 1])]
            /\ retry_attempt' = [retry_attempt EXCEPT ![w] = @ + 1]
            /\ UNCHANGED <<wpc, err, api_semaphore, summary_json>>
       ELSE /\ wpc' = [wpc EXCEPT ![w] = "fail"]
            /\ err' = [err EXCEPT ![w] = "MISTRAL_FAILED"]
            /\ api_semaphore' = release(api_semaphore)
            /\ UNCHANGED <<retry_attempt, slept, summary_json>>
    /\ UNCHANGED <<truncVars, emit_failed, batch_size, summarized_at_claim, ai_jobs, emails, email_ai_summaries, batch, email_row,
                   job_log, history, syncVars>>

\* _write_summary: upsert on (account_id, gmail_message_id, prompt_version).
write_summary(summaries, gmail_message_id, input_hash, json) ==
    {r \in summaries : r.gmail_message_id # gmail_message_id}
        \cup {[gmail_message_id |-> gmail_message_id, input_hash |-> input_hash,
                summary_json |-> json]}

\* A failing upsert raises; process_job's handler fails the job with
\* WORKER_EXCEPTION.
WriteSummary(w, store_ok) ==
    /\ wpc[w] = "write"
    /\ IF store_ok
         THEN /\ email_ai_summaries' = write_summary(email_ai_summaries,
                      CurJob(w).gmail_message_id, job_input_hash(email_row[w]),
                      summary_json[w])
              /\ wpc' = [wpc EXCEPT ![w] = "succeed"]
              /\ err' = err
         ELSE /\ email_ai_summaries' = email_ai_summaries
              /\ wpc' = [wpc EXCEPT ![w] = "fail"]
              /\ err' = [err EXCEPT ![w] = "WORKER_EXCEPTION"]
    /\ UNCHANGED <<truncVars, emit_failed, invocations, summary_json, batch_size, summarized_at_claim, ai_jobs, emails, batch, email_row, job_log, model_calls,
                   history, callVars, syncVars>>

\* _mark_job_succeeded: update ... set status = succeeded where id = job_id.
mark_job_succeeded(jobs, job_id) ==
    [jobs EXCEPT ![job_id].status = "succeeded"]

\* A failing update is logged and swallowed.
MarkJobSucceeded(w, store_ok) ==
    /\ wpc[w] = "succeed"
    /\ IF store_ok
         THEN /\ ai_jobs' = mark_job_succeeded(ai_jobs, CurJob(w).id)
              /\ job_log' = [job_log EXCEPT
                     ![CurJob(w).id].succeeded_hash =
                         IF ai_jobs[CurJob(w).id].status = "succeeded"
                         THEN @ \cup {job_input_hash(email_row[w])}
                         ELSE {job_input_hash(email_row[w])},
                     ![CurJob(w).id].failed_until = NoTime,
                     ![CurJob(w).id].summarized =
                         IF model_calls[w] > 0
                         THEN @ \cup {job_input_hash(email_row[w])} ELSE @]
         ELSE UNCHANGED <<ai_jobs, job_log>>
    /\ IF model_calls[w] > 0
       THEN /\ wpc' = [wpc EXCEPT ![w] = "emit"]
            /\ UNCHANGED <<batch, email_row, err, model_calls, summarized_at_claim,
                           callVars, summary_json>>
       ELSE NextJob(w)
    /\ UNCHANGED <<truncVars, emit_failed, invocations, batch_size, emails, email_ai_summaries, history, syncVars>>

\* An emit whose exception is not caught where it is raised: it reaches the
\* handler of process_job, which fails the job with WORKER_EXCEPTION.
EmitSummaryReadyUncaught(w, emit_ok) ==
    /\ wpc[w] = "emit"
    /\ emit_failed' = [emit_failed EXCEPT ![w] = ~emit_ok]
    /\ IF emit_ok
       THEN NextJob(w)
       ELSE /\ wpc' = [wpc EXCEPT ![w] = "fail"]
            /\ err' = [err EXCEPT ![w] = "WORKER_EXCEPTION"]
            /\ UNCHANGED <<batch, email_row, model_calls, summarized_at_claim, callVars,
                           summary_json>>
    /\ UNCHANGED <<truncVars, invocations, batch_size, ai_jobs, emails, email_ai_summaries,
                   job_log, history, syncVars>>

\* process_job step 8, after the summary of a model call was written and
\* the job marked succeeded: sio.emit("ai_summary_ready") inside its own
\* try / except, which logs a failure; process_job returns.
EmitSummaryReady(w, emit_ok) ==
    /\ wpc[w] = "emit"
    /\ emit_failed' = [emit_failed EXCEPT ![w] = ~emit_ok]
    /\ NextJob(w)
    /\ UNCHANGED <<truncVars, invocations, batch_size, ai_jobs, emails, email_ai_summaries,
                   job_log, history, syncVars>>

\* _mark_job_failed(job_id, attempts, error_code) with the attempts of the
\* claimed job dict: dead at AI_MAX_ATTEMPTS, otherwise queued again with
\* run_after = now + 2 ** new_attempts minutes and the lock cleared.
mark_job_failed(jobs, job_id, attempts, error_code, t) ==
    LET new_attempts == attempts + 1 IN
    IF new_attempts >= AI_MAX_ATTEMPTS
    THEN [jobs EXCEPT ![job_id].status = "dead",
                      ![job_id].attempts = new_attempts,
                      ![job_id].last_error_code = error_code]
    ELSE [jobs EXCEPT ![job_id].status = "queued",
                      ![job_id].attempts = new_attempts,
                      ![job_id].last_error_code = error_code,
                      ![job_id].run_after = t + Pow2(new_attempts),
                      ![job_id].locked_at = NoTime,
                      ![job_id].locked_by = None]

\* A failing update is logged and swallowed.
MarkJobFailed(w, store_ok) ==
    /\ wpc[w] = "fail"
    /\ IF store_ok
         THEN LET jobs2 == mark_job_failed(ai_jobs, CurJob(w).id, CurJob(w).attempts,
                                           err[w], now) IN
              /\ ai_jobs' = jobs2
              /\ job_log' = [GhostAfter(jobs2) EXCEPT ![CurJob(w).id].failed_until =
                                IF jobs2[CurJob(w).id].status = "queued"
                                THEN jobs2[CurJob(w).id].run_after ELSE @]
         ELSE UNCHANGED <<ai_jobs, job_log>>
    /\ NextJob(w)
    /\ UNCHANGED <<truncVars, emit_failed, invocations, batch_size, emails, email_ai_summaries, history, syncVars>>

(***************************************************************************)
(* The mail provider.  Its current position is Len(history); a change is   *)
(* a messagesAdded record for message m, or (0) a change of another type.  *)
(***************************************************************************)
\* GmailClient.get_current_history_id() (backend.api.gmail_client, not among
\* the sources): the provider's current position.
history_id == Len(history)

ProviderChange(m) ==
    /\ Len(history) < MaxPos
    /\ history' = Append(history, m)
    /\ UNCHANGED <<truncVars, ai_jobs, emails, email_ai_summaries, workerVars, job_log,
                   syncVars>>

\* GmailClient.list_history(start_history_id) of backend.api.gmail_client,
\* which is not among the sources: as run_worker_loop uses it, it gives the
\* records after the start position (None when the start position is too
\* old, HTTP 404: see SyncDeltaFetch).
list_history(start_history_id) ==
    SubSeq(history, start_history_id + 1, Len(history))

\* Only the ids of the first record of the change list.
extract_first_record_only(history_records) ==
    {history_records[k] : k \in 1..Min(1, Len(history_records))} \ {0}

\* _extract_message_ids_from_history: the ids of the messagesAdded records.
extract_message_ids_from_history(history_records) ==
    {history_records[k] : k \in 1..Len(history_records)} \ {0}

\* Messages the provider holds: those some messagesAdded record names.
Mailbox == {history[k] : k \in 1..Len(history)} \ {0}

\* Messages the provider held at position p.
MailboxAt(p) == {history[k] : k \in 1..p} \ {0}

(***************************************************************************)
(* run_worker_loop, one cycle.  spc:                                       *)
(*   idle    between cycles (sleeping)                                     *)
(*   delta   cursor changed: list_history and the per-message fetch        *)
(*   full    assistant.process_emails() (first run / fallback)             *)
(*   ingest  the save_email / enqueue_ai_job loop over `emails`            *)
(*   finish  notification and cursor save                                  *)
(***************************************************************************)
ResetLocals ==
    /\ last_cursor' = None
    /\ current_cursor' = None
    /\ cycle_emails' = <<>>
    /\ written_count' = 0
    /\ changed_ids' = {}
    /\ ingested' = {}
    /\ written_ids' = {}
    /\ fetched_ids' = <<>>

\* The cycle is over and the loop sleeps before the next one.
ResetCycle ==
    /\ spc' = "idle"
    /\ ResetLocals

\* An exception nobody catches ends run_worker_loop.
loop_ends == "ended"

\* Where an exception raised inside the cycle and caught by no inner handler
\* leaves the loop: `except Exception` at the bottom of the while body
\* prints, sleeps 120 s and the loop goes round.
exception_handler == "idle"

\* ControlPlane.log_audit(action, resource, metadata): one insert into
\* audit_log; a failing insert is caught and logged.
log_audit(log, action, resource, count, insert_ok) ==
    IF insert_ok
    THEN Append(log, [action |-> action, resource |-> resource, count |-> count])
    ELSE log

\* The table audit_log holds at most MaxAudit rows here: an insert that
\* would exceed it is not explored.
AuditRoom(insert_ok) == insert_ok => Len(audit_log) < MaxAudit

\* Cycle start: log_audit("cycle_start"), then get_sync_state (None when the
\* select fails), then get_current_history_id (a raise is caught: fallback
\* to full sync with current_cursor still None), then the choice of the
\* case.  mode:
\*   first   no cursor stored: bounded full sync
\*   noop    cursor unchanged: the cycle ends here
\*   delta   cursor changed: list_history
\*   stale   list_history answered None (HTTP 404): bounded full sync
\*   error   a raise in the cursor block: bounded full sync
SyncCycleStart(state_ok, profile_ok, audit_ok) ==
    /\ spc = "idle"
    /\ AuditRoom(audit_ok)
    /\ audit_log' = log_audit(audit_log, "cycle_start", "gmail_ingest", 0, audit_ok)
    /\ emitted' = FALSE
    /\ emit_count' = 0
    /\ auth_signalled' = FALSE
    /\ summarize_calls' = 0
    /\ LET last == IF state_ok THEN gmail_sync_state ELSE None IN
       /\ last_cursor' = last
       /\ sleep_seconds' = IF profile_ok /\ last # None /\ last = history_id
                            THEN CYCLE_INTERVAL_SECONDS ELSE 0
       /\ IF ~profile_ok
          THEN /\ current_cursor' = None
               /\ position_at_start' = None
               /\ spc' = "full"
               /\ mode' = "error"
          ELSE /\ current_cursor' = history_id
               /\ position_at_start' = history_id
               /\ spc' = IF last = None THEN "full"
                         ELSE IF last = history_id THEN "idle"
                         ELSE "delta"
               /\ mode' = IF last = None THEN "first"
                          ELSE IF last = history_id THEN "noop"
                          ELSE "delta"
    /\ UNCHANGED <<truncVars, ai_jobs, emails, email_ai_summaries, workerVars, job_log,
                   history, gmail_sync_state, cycle_emails, written_count, changed_ids,
                   ingested, written_ids, fetched_ids>>

\* _fetch_and_transform_messages: get_message per id; a raise or a message
\* without the INBOX label drops the id, the others give a dict with
\* message_id and the content fetched.
fetch_and_transform_messages(message_ids, outcome, content) ==
    LET kept == {m \in message_ids : outcome[m] = "ok"} IN
    [k \in 1..Cardinality(kept) |->
        [message_id |-> SortedSeq(kept)[k], content |-> content[SortedSeq(kept)[k]]]]

\* emails[:max_emails]
Truncate(seq, n) == SubSeq(seq, 1, Min(Len(seq), n))

\* Delta sync: list_history(last_cursor); None (HTTP 404) or a raise falls
\* back to full sync.  A call may fail because the grant was revoked
\* (list_outcome "auth", outcome[m] "auth"): a raise like any other here.
SyncDeltaFetch(list_outcome, outcome, content) ==
    /\ spc = "delta"
    /\ IF list_outcome \in {"404", "error", "auth"}
       THEN /\ spc' = "full"
            /\ mode' = IF list_outcome = "404" THEN "stale" ELSE "error"
            /\ auth_signalled' = (auth_signalled \/ list_outcome = "auth")
            /\ UNCHANGED <<cycle_emails, changed_ids, fetched_ids>>
       ELSE LET ids == extract_message_ids_from_history(list_history(last_cursor))
                fetched == Truncate(fetch_and_transform_messages(ids, outcome, content),
                                    MAX_EMAILS_PER_CYCLE)
            IN /\ changed_ids' = ids
               /\ fetched_ids' = SortedSeq(ids)
               /\ cycle_emails' = fetched
               /\ spc' = IF fetched = <<>> THEN "finish" ELSE "ingest"
               /\ mode' = mode
               /\ auth_signalled' = (auth_signalled \/ \E m \in ids : outcome[m] = "auth")
    /\ UNCHANGED <<truncVars, ai_jobs, emails, email_ai_summaries, workerVars, job_log,
                   history, gmail_sync_state, last_cursor, current_cursor, written_count,
                   ingested, position_at_start, audit_log, emitted, written_ids,
                   sleep_seconds, emit_count, summarize_calls>>

\* EmailAssistant.process_emails over run_engine: one dict
\* {thread_id, subject, summary} per inbox message, at most 30; the dicts
\* carry neither message_id nor id.  Any other exception of the fetch is
\* caught in run_engine, which then returns [] (engine_outcome "error").
\* An invalid grant comes back as the
\* __auth_error__ dict: the loop sleeps 10 minutes and starts over; otherwise
\* process_emails has summarize called on every email.  A grant
\* that an earlier call of the cycle found revoked is still revoked.
\* Summarizer.summarize for each of the n emails run_engine returned: one
\* chat.complete call per email while AIState is ACTIVE and the API key is
\* set (ai_active), none otherwise.
summarize(n, ai_active) == IF ai_active THEN n ELSE 0

process_emails(engine_outcome) ==
    LET ids == SortedSeq(Mailbox) IN
    IF engine_outcome = "error" THEN <<>>
    ELSE [k \in 1..Min(Len(ids), FULL_SYNC_MAX_EMAILS) |->
             [message_id |-> None, content |-> "none"]]

SyncFullFetch(engine_outcome, ai_active) ==
    /\ spc = "full"
    /\ auth_signalled => engine_outcome = "auth"
    /\ IF engine_outcome = "auth"
       THEN /\ ResetCycle
            /\ position_at_start' = None
            /\ auth_signalled' = TRUE
            /\ sleep_seconds' = QUIET_BACKOFF_SECONDS
            /\ summarize_calls' = summarize_calls
       ELSE LET returned == process_emails(engine_outcome)
                fetched == Truncate(returned, MAX_EMAILS_PER_CYCLE)
            IN
            /\ summarize_calls' = summarize_calls + summarize(Len(returned), ai_active)
            /\ cycle_emails' = fetched
            /\ spc' = IF fetched = <<>> THEN "finish" ELSE "ingest"
            /\ UNCHANGED <<last_cursor, current_cursor, written_count, changed_ids,
                           ingested, position_at_start, written_ids, fetched_ids,
                           auth_signalled, sleep_seconds>>
    /\ UNCHANGED <<truncVars, ai_jobs, emails, email_ai_summaries, workerVars, job_log,
                   history, gmail_sync_state, audit_log, emitted, mode, emit_count>>

\* One pass of the ingest loop: skip a dict without id; save_email (a raise
\* ends the cycle in the loop's handler); written_count += 1; enqueue_ai_job
\* for the first 30 written (a failing upsert is swallowed).  The last pass
\* goes on to log_audit("ingestion_complete", {"count": written_count}).
SyncIngestOne(save_ok, enqueue_ok, audit_ok) ==
    /\ spc = "ingest"
    /\ Len(cycle_emails) = 1 => AuditRoom(audit_ok)
    /\ LET email == Head(cycle_emails)
           m_id == email.message_id
           last_pass == Len(cycle_emails) = 1
       IN IF m_id = None
          THEN /\ cycle_emails' = Tail(cycle_emails)
               /\ spc' = IF last_pass THEN "finish" ELSE "ingest"
               /\ audit_log' = IF last_pass
                               THEN log_audit(audit_log, "ingestion_complete", "supabase",
                                              written_count, audit_ok)
                               ELSE audit_log
               /\ UNCHANGED <<ai_jobs, emails, job_log, last_cursor, current_cursor,
                              written_count, changed_ids, ingested, position_at_start,
                              written_ids, fetched_ids, sleep_seconds>>
          ELSE IF ~save_ok
          THEN /\ spc' = exception_handler
               /\ ResetLocals
               /\ position_at_start' = None
               /\ sleep_seconds' = ERROR_BACKOFF_SECONDS
               /\ UNCHANGED <<ai_jobs, emails, job_log, audit_log>>
          ELSE /\ emails' = save_email(emails, m_id, email.content)
               /\ written_count' = written_count + 1
               /\ written_ids' = written_ids \cup {m_id}
               /\ IF written_count + 1 <= ENQUEUE_LIMIT /\ enqueue_ok
                  THEN LET jobs2 == enqueue_ai_job(ai_jobs, JOB_TYPE, m_id, now) IN
                       /\ ai_jobs' = jobs2
                       /\ job_log' = LogAfterSave(GhostAfter(jobs2), jobs2, m_id, email.content)
                       /\ ingested' = ingested \cup {m_id}
                  ELSE /\ job_log' = LogAfterSave(job_log, ai_jobs, m_id, email.content)
                       /\ UNCHANGED <<ai_jobs, ingested>>
               /\ cycle_emails' = Tail(cycle_emails)
               /\ spc' = IF last_pass THEN "finish" ELSE "ingest"
               /\ audit_log' = IF last_pass
                               THEN log_audit(audit_log, "ingestion_complete", "supabase",
                                              written_count + 1, audit_ok)
                               ELSE audit_log
               /\ UNCHANGED <<last_cursor, current_cursor, changed_ids, position_at_start,
                              fetched_ids, sleep_seconds>>
    /\ UNCHANGED <<truncVars, email_ai_summaries, workerVars, history, gmail_sync_state, emitted, mode,
                   auth_signalled, emit_count, summarize_calls>>

\* "count" of the emails_updated payload.
event_count(n) == n

\* The cursor a finished cycle would save if it re-read the provider.
cursor_to_save_reread == history_id

\* The cursor a finished cycle saves.
cursor_to_save == current_cursor

\* End of the cycle: sio.emit("emails_updated") when something was written
\* (not without Socket.IO, and a raise is caught), then
\* set_sync_state(current_cursor) when a position was read; a failing upsert
\* is caught and logged.
SyncCycleEnd(state_ok, emit_ok) ==
    /\ spc = "finish"
    /\ emitted' = (written_count > 0 /\ emit_ok)
    /\ emit_count' = IF written_count > 0 /\ emit_ok THEN event_count(written_count) ELSE 0
    /\ gmail_sync_state' = IF current_cursor # None /\ state_ok
                           THEN cursor_to_save ELSE gmail_sync_state
    /\ sleep_seconds' = CYCLE_INTERVAL_SECONDS
    /\ ResetCycle
    /\ UNCHANGED <<truncVars, ai_jobs, emails, email_ai_summaries, workerVars, job_log,
                   history, position_at_start, audit_log, mode, auth_signalled,
                   summarize_calls>>

(***************************************************************************)
(* POST summarize (backend/api/service.py): a user asks for the summary    *)
(* of a stored email; the handler enqueues its job.  The sync-now handler  *)
(* enqueues the same way for the emails it saved.                          *)
(***************************************************************************)
ApiEnqueueJob(m, enqueue_ok) ==
    /\ \E r \in emails : r.gmail_message_id = m
    /\ IF enqueue_ok
       THEN LET jobs2 == enqueue_ai_job(ai_jobs, JOB_TYPE, m, now) IN
            /\ ai_jobs' = jobs2
            /\ job_log' = GhostAfter(jobs2)
       ELSE UNCHANGED <<ai_jobs, job_log>>
    /\ UNCHANGED <<truncVars, emails, email_ai_summaries, workerVars, history, syncVars>>

\* POST sync-now (backend/api/service.py, _sync_now_impl): the handler
\* fetches the inbox with run_engine and saves every email; the jobs are
\* enqueued afterwards by a fire-and-forget task (ApiEnqueueJob).
ApiSaveEmail(m, c) ==
    /\ emails' = save_email(emails, m, c)
    /\ job_log' = LogAfterSave(job_log, ai_jobs, m, c)
    /\ UNCHANGED <<truncVars, ai_jobs, email_ai_summaries, workerVars, history, syncVars>>

\* The emails table is a table of the hosted database and no code of the
\* repository deletes from it; _fetch_email_row provides for a select that
\* answers no row (response.data empty): the row of message m is gone.
EmailRowGone(m) ==
    /\ \E r \in emails : r.gmail_message_id = m
    /\ emails' = {r \in emails : r.gmail_message_id # m}
    /\ UNCHANGED <<truncVars, ai_jobs, email_ai_summaries, workerVars, job_log, history,
                   syncVars>>

\* A minute passes.
Tick ==
    /\ \E i \in JobIds : ai_jobs[i].run_after > now \/ job_log[i].failed_until > now
    /\ ai_jobs' = [i \in JobIds |->
                     [ai_jobs[i] EXCEPT !.run_after = IF @ > now THEN @ - 1 ELSE @]]
    /\ job_log' = [i \in JobIds |->
                     [job_log[i] EXCEPT !.failed_until = IF @ > now THEN @ - 1 ELSE @]]
    /\ UNCHANGED <<truncVars, emails, email_ai_summaries, workerVars, history, syncVars>>

(***************************************************************************)
(* Specifications.                                                         *)
(***************************************************************************)
Init ==
    /\ ai_jobs = <<>>
    /\ emails = {}
    /\ email_ai_summaries = {}
    /\ wpc = [w \in Threads |-> "idle"]
    /\ batch_size = [w \in Threads |-> AI_JOBS_BATCH]
    /\ batch = [w \in Threads |-> <<>>]
    /\ email_row = [w \in Threads |-> "none"]
    /\ err = [w \in Threads |-> "none"]
    /\ model_calls = [w \in Threads |-> 0]
    /\ api_semaphore = MAX_CONCURRENT_REQUESTS
    /\ retry_attempt = [w \in Threads |-> 0]
    /\ slept = [w \in Threads |-> <<>>]
    /\ call_kinds = [w \in Threads |-> <<>>]
    /\ job_log = <<>>
    /\ summarized_at_claim = [w \in Threads |-> <<>>]
    /\ history = <<0>>
    /\ gmail_sync_state = None
    /\ spc = "idle"
    /\ last_cursor = None
    /\ current_cursor = None
    /\ cycle_emails = <<>>
    /\ written_count = 0
    /\ changed_ids = {}
    /\ ingested = {}
    /\ position_at_start = None
    /\ audit_log = <<>>
    /\ emitted = FALSE
    /\ mode = "none"
    /\ written_ids = {}
    /\ fetched_ids = <<>>
    /\ auth_signalled = FALSE
    /\ sleep_seconds = 0
    /\ emit_count = 0
    /\ summarize_calls = 0
    /\ trunc_input = <<>>
    /\ trunc_target = 0
    /\ trunc_result = NoResult
    /\ invocations = NotCounted
    /\ summary_json = [w \in Threads |-> NoSummary]
    /\ emit_failed = [w \in Threads |-> FALSE]
    /\ LimitIdle
    /\ AiIdle
    /\ PolicyIdle

\* The contents the API handlers save and the sync loop fetches in the
\* specifications below: one that goes to the model and one short enough
\* for the bypass.
QueueContents == {"c1", "c4"}

FetchOutcomes == {"ok", "raise", "not_inbox", "auth"}

ListOutcomes == {"ok", "404", "error", "auth"}

EngineOutcomes == {"ok", "auth", "error"}

\* The outcomes of an invocation in the specifications of the whole queue:
\* a summary or a failure that is no rate limit.
PlainOutcomes == {OutcomeOk, OutcomeTimeout}

WorkerStep(w, ok, Out) ==
    \/ ClaimJobs(w, ok)
    \/ FetchEmail(w, ok)
    \/ CheckCache(w, ok)
    \/ AcquirePermit(w)
    \/ \E outcome \in Out : CallMistral(w, outcome)
    \/ WriteSummary(w, ok)
    \/ MarkJobSucceeded(w, ok)
    \/ EmitSummaryReady(w, ok)
    \/ MarkJobFailed(w, ok)

SyncStep(Ok, Fetch, List, Engine, Cont, M) ==
    \/ \E a, b, c \in Ok : SyncCycleStart(a, b, c)
    \/ \E l \in List : \E outcome \in [M -> Fetch], content \in [M -> Cont] :
          SyncDeltaFetch(l, outcome, content)
    \/ \E o \in Engine, k \in Ok : SyncFullFetch(o, k)
    \/ \E a, b, c \in Ok : SyncIngestOne(a, b, c)
    \/ \E a, b \in Ok : SyncCycleEnd(a, b)

\* The whole system with every store and provider call answering.
Next ==
    \/ \E w \in Workers : WorkerStep(w, TRUE, InvokeOutcomes)
    \/ SyncStep({TRUE}, {"ok", "not_inbox"}, {"ok"}, {"ok"}, Contents, Msgs)
    \/ \E m \in Msgs \cup {0} : ProviderChange(m)
    \/ \E m \in Msgs : ApiEnqueueJob(m, TRUE)
    \/ Tick

Spec == Init /\ [][Next]_vars

\* The job queue: the workers against the API handlers that save emails and
\* enqueue jobs, for the messages QueueMsgs; the sync loop is not running.
QueueNext ==
    \/ \E w \in Workers : WorkerStep(w, TRUE, PlainOutcomes)
    \/ \E m \in QueueMsgs, c \in QueueContents : ApiSaveEmail(m, c)
    \/ \E m \in QueueMsgs : ApiEnqueueJob(m, TRUE)
    \/ Tick

QueueSpec == Init /\ [][QueueNext]_vars

\* Enqueues from the API for every message (each saved with the content
\* "c1"), with one worker processing.
EnqueueNext ==
    \/ WorkerStep(1, TRUE, PlainOutcomes)
    \/ \E m \in Msgs : ApiSaveEmail(m, "c1")
    \/ \E m \in Msgs : ApiEnqueueJob(m, TRUE)
    \/ Tick

EnqueueSpec == Init /\ [][EnqueueNext]_vars

\* The sync loop alone against the provider, with store and provider calls
\* that may fail, and the API enqueueing jobs for stored emails.
SyncNext ==
    \/ SyncStep(BOOLEAN, FetchOutcomes, ListOutcomes, EngineOutcomes, QueueContents, Msgs)
    \/ \E m \in Msgs \cup {0} : ProviderChange(m)
    \/ \E m \in Msgs : ApiEnqueueJob(m, TRUE)

SyncSpec == Init /\ [][SyncNext]_vars

\* A backlog: the provider holds NumBulkMsgs messages (or one fewer) that
\* arrived while the loop was down; the store has either no cursor or the
\* cursor of the empty mailbox.  Every store and provider call answers.
BulkInit ==
    /\ history \in {<<0>> \o [k \in 1..n |-> k] : n \in (NumBulkMsgs - 1)..NumBulkMsgs}
    /\ gmail_sync_state \in {None, 1}
    /\ ai_jobs = <<>>
    /\ emails = {}
    /\ email_ai_summaries = {}
    /\ wpc = [w \in Threads |-> "idle"]
    /\ batch_size = [w \in Threads |-> AI_JOBS_BATCH]
    /\ batch = [w \in Threads |-> <<>>]
    /\ email_row = [w \in Threads |-> "none"]
    /\ err = [w \in Threads |-> "none"]
    /\ model_calls = [w \in Threads |-> 0]
    /\ api_semaphore = MAX_CONCURRENT_REQUESTS
    /\ retry_attempt = [w \in Threads |-> 0]
    /\ slept = [w \in Threads |-> <<>>]
    /\ call_kinds = [w \in Threads |-> <<>>]
    /\ job_log = <<>>
    /\ summarized_at_claim = [w \in Threads |-> <<>>]
    /\ spc = "idle"
    /\ last_cursor = None
    /\ current_cursor = None
    /\ cycle_emails = <<>>
    /\ written_count = 0
    /\ changed_ids = {}
    /\ ingested = {}
    /\ position_at_start = None
    /\ audit_log = <<>>
    /\ emitted = FALSE
    /\ mode = "none"
    /\ written_ids = {}
    /\ fetched_ids = <<>>
    /\ auth_signalled = FALSE
    /\ sleep_seconds = 0
    /\ emit_count = 0
    /\ summarize_calls = 0
    /\ trunc_input = <<>>
    /\ trunc_target = 0
    /\ trunc_result = NoResult
    /\ invocations = NotCounted
    /\ summary_json = [w \in Threads |-> NoSummary]
    /\ emit_failed = [w \in Threads |-> FALSE]
    /\ LimitIdle
    /\ AiIdle
    /\ PolicyIdle

BulkNext == SyncStep({TRUE}, {"ok"}, {"ok"}, {"ok"}, {"c1"}, BulkMsgs)

BulkSpec == BulkInit /\ [][BulkNext]_vars

\* Concurrent claims: a job table in any state the queue can leave it in,
\* and workers that each call claim_jobs once with their own batch size.
JobRows(m) ==
    {[job_type |-> JOB_TYPE, gmail_message_id |-> m, status |-> st, attempts |-> a,
      run_after |-> t, locked_by |-> IF st = "running" THEN 1 ELSE None,
      locked_at |-> IF st = "running" THEN now ELSE NoTime, last_error_code |-> "none"] :
        st \in {"queued", "running", "succeeded", "dead"}, a \in {0}, t \in {now, now + 2}}

ClaimInit ==
    /\ ai_jobs \in {jobs \in [1..NumClaimJobs -> UNION {JobRows(m) : m \in 1..NumClaimJobs}] :
                       \A i \in 1..NumClaimJobs : jobs[i].gmail_message_id = i}
    /\ job_log = [i \in 1..NumClaimJobs |-> NewLog]
    /\ summarized_at_claim = [w \in Threads |-> <<>>]
    /\ \E f \in [Workers -> 1..MaxBatchSize] :
          batch_size = [w \in Threads |-> IF w \in Workers THEN f[w] ELSE AI_JOBS_BATCH]
    /\ emails = {}
    /\ email_ai_summaries = {}
    /\ wpc = [w \in Threads |-> "idle"]
    /\ batch = [w \in Threads |-> <<>>]
    /\ email_row = [w \in Threads |-> "none"]
    /\ err = [w \in Threads |-> "none"]
    /\ model_calls = [w \in Threads |-> 0]
    /\ api_semaphore = MAX_CONCURRENT_REQUESTS
    /\ retry_attempt = [w \in Threads |-> 0]
    /\ slept = [w \in Threads |-> <<>>]
    /\ call_kinds = [w \in Threads |-> <<>>]
    /\ history = <<0>>
    /\ gmail_sync_state = None
    /\ spc = "idle"
    /\ last_cursor = None
    /\ current_cursor = None
    /\ cycle_emails = <<>>
    /\ written_count = 0
    /\ changed_ids = {}
    /\ ingested = {}
    /\ position_at_start = None
    /\ audit_log = <<>>
    /\ emitted = FALSE
    /\ mode = "none"
    /\ written_ids = {}
    /\ fetched_ids = <<>>
    /\ auth_signalled = FALSE
    /\ sleep_seconds = 0
    /\ emit_count = 0
    /\ summarize_calls = 0
    /\ trunc_input = <<>>
    /\ trunc_target = 0
    /\ trunc_result = NoResult
    /\ invocations = NotCounted
    /\ summary_json = [w \in Threads |-> NoSummary]
    /\ emit_failed = [w \in Threads |-> FALSE]
    /\ LimitIdle
    /\ AiIdle
    /\ PolicyIdle

ClaimNext == \E w \in Workers : ClaimJobs(w, TRUE)

ClaimSpec == ClaimInit /\ [][ClaimNext]_vars

\* Concurrent model calls: every thread of the process holds one claimed
\* job (running, locked by it) whose email it has fetched and whose cache
\* check missed, and is about to enter _call_mistral.
CallInit ==
    /\ ai_jobs = [i \in Threads |->
                    [NewJobRow(JOB_TYPE, i, now) EXCEPT !.status = "running", !.locked_by = i,
                                                        !.locked_at = now]]
    /\ job_log = [i \in Threads |-> NewLog]
    /\ emails = {[gmail_message_id |-> i, content |-> "c1"] : i \in Threads}
    /\ email_ai_summaries = {}
    /\ wpc = [w \in Threads |-> "call"]
    /\ batch_size = [w \in Threads |-> AI_JOBS_BATCH]
    /\ batch = [w \in Threads |-> <<[id |-> w, gmail_message_id |-> w, attempts |-> 0]>>]
    /\ email_row = [w \in Threads |-> "c1"]
    /\ err = [w \in Threads |-> "none"]
    /\ model_calls = [w \in Threads |-> 0]
    /\ api_semaphore = MAX_CONCURRENT_REQUESTS
    /\ retry_attempt = [w \in Threads |-> 0]
    /\ slept = [w \in Threads |-> <<>>]
    /\ call_kinds = [w \in Threads |-> <<>>]
    /\ summarized_at_claim = [w \in Threads |-> <<{}>>]
    /\ history = <<0>>
    /\ gmail_sync_state = None
    /\ spc = "idle"
    /\ last_cursor = None
    /\ current_cursor = None
    /\ cycle_emails = <<>>
    /\ written_count = 0
    /\ changed_ids = {}
    /\ ingested = {}
    /\ position_at_start = None
    /\ audit_log = <<>>
    /\ emitted = FALSE
    /\ mode = "none"
    /\ written_ids = {}
    /\ fetched_ids = <<>>
    /\ auth_signalled = FALSE
    /\ sleep_seconds = 0
    /\ emit_count = 0
    /\ summarize_calls = 0
    /\ trunc_input = <<>>
    /\ trunc_target = 0
    /\ trunc_result = NoResult
    /\ invocations = NotCounted
    /\ summary_json = [w \in Threads |-> NoSummary]
    /\ emit_failed = [w \in Threads |-> FALSE]
    /\ LimitIdle
    /\ AiIdle
    /\ PolicyIdle

CallOutcomes == {OutcomeOk, Outcome429, OutcomeTimeout}

CallNext ==
    \E w \in Threads :
        \/ AcquirePermit(w)
        \/ \E outcome \in CallOutcomes : CallMistral(w, outcome)
        \/ WriteSummary(w, TRUE)
        \/ MarkJobSucceeded(w, TRUE)
        \/ EmitSummaryReady(w, TRUE)
        \/ MarkJobFailed(w, TRUE)

CallSpec == CallInit /\ [][CallNext]_vars

\* smart_truncate alone: texts of up to MaxLines lines, each line empty,
\* short or long, and a target of one token or of twenty.
LineLengths == {0, 6, 30}
TruncTargets == {1, 20}

LineOf(n) == [k \in 1..n |-> "a"]

TruncTexts ==
    UNION {{join_lines([k \in 1..n |-> LineOf(f[k])]) : f \in [1..n -> LineLengths]} :
              n \in 1..MaxLines}

\* One call smart_truncate(trunc_input, trunc_target).
SmartTruncate ==
    /\ ~trunc_result.done
    /\ LET r == smart_truncate(trunc_input, trunc_target) IN
       trunc_result' = [done |-> TRUE, text |-> r.text, truncated |-> r.truncated]
    /\ UNCHANGED <<trunc_input, trunc_target, limitVars, aiVars, policyVars, pipelineVars>>

TruncInit ==
    /\ trunc_input \in TruncTexts
    /\ trunc_target \in TruncTargets
    /\ ai_jobs = <<>>
    /\ emails = {}
    /\ email_ai_summaries = {}
    /\ wpc = [w \in Threads |-> "idle"]
    /\ batch_size = [w \in Threads |-> AI_JOBS_BATCH]
    /\ batch = [w \in Threads |-> <<>>]
    /\ email_row = [w \in Threads |-> "none"]
    /\ err = [w \in Threads |-> "none"]
    /\ model_calls = [w \in Threads |-> 0]
    /\ api_semaphore = MAX_CONCURRENT_REQUESTS
    /\ retry_attempt = [w \in Threads |-> 0]
    /\ slept = [w \in Threads |-> <<>>]
    /\ call_kinds = [w \in Threads |-> <<>>]
    /\ job_log = <<>>
    /\ summarized_at_claim = [w \in Threads |-> <<>>]
    /\ history = <<0>>
    /\ gmail_sync_state = None
    /\ spc = "idle"
    /\ last_cursor = None
    /\ current_cursor = None
    /\ cycle_emails = <<>>
    /\ written_count = 0
    /\ changed_ids = {}
    /\ ingested = {}
    /\ position_at_start = None
    /\ audit_log = <<>>
    /\ emitted = FALSE
    /\ mode = "none"
    /\ written_ids = {}
    /\ fetched_ids = <<>>
    /\ auth_signalled = FALSE
    /\ sleep_seconds = 0
    /\ emit_count = 0
    /\ summarize_calls = 0
    /\ trunc_result = NoResult
    /\ invocations = NotCounted
    /\ summary_json = [w \in Threads |-> NoSummary]
    /\ emit_failed = [w \in Threads |-> FALSE]
    /\ LimitIdle
    /\ AiIdle
    /\ PolicyIdle

TruncNext == SmartTruncate

TruncSpec == TruncInit /\ [][TruncNext]_vars

\* The delta scenario: the cursor is stored at position 1, the provider has
\* since added the messages ScenarioMsgs (content "c1"), and one of them
\* already has a summary row with the hash of that content.  One sync loop
\* and one worker run; every store, provider and model call answers.
ScenarioMsgs == {1, 2, 3}

ScenarioInit ==
    /\ history = <<0>> \o SortedSeq(ScenarioMsgs)
    /\ gmail_sync_state = 1
    /\ \E m \in ScenarioMsgs :
          email_ai_summaries = {[gmail_message_id |-> m, input_hash |-> job_input_hash("c1"),
                                 summary_json |-> validate_answer(ModelAnswer)]}
    /\ invocations = 0
    /\ summary_json = [w \in Threads |-> NoSummary]
    /\ emit_failed = [w \in Threads |-> FALSE]
    /\ LimitIdle
    /\ AiIdle
    /\ PolicyIdle
    /\ ai_jobs = <<>>
    /\ emails = {}
    /\ wpc = [w \in Threads |-> "idle"]
    /\ batch_size = [w \in Threads |-> AI_JOBS_BATCH]
    /\ batch = [w \in Threads |-> <<>>]
    /\ email_row = [w \in Threads |-> "none"]
    /\ err = [w \in Threads |-> "none"]
    /\ model_calls = [w \in Threads |-> 0]
    /\ api_semaphore = MAX_CONCURRENT_REQUESTS
    /\ retry_attempt = [w \in Threads |-> 0]
    /\ slept = [w \in Threads |-> <<>>]
    /\ call_kinds = [w \in Threads |-> <<>>]
    /\ job_log = <<>>
    /\ summarized_at_claim = [w \in Threads |-> <<>>]
    /\ spc = "idle"
    /\ last_cursor = None
    /\ current_cursor = None
    /\ cycle_emails = <<>>
    /\ written_count = 0
    /\ changed_ids = {}
    /\ ingested = {}
    /\ position_at_start = None
    /\ audit_log = <<>>
    /\ emitted = FALSE
    /\ mode = "none"
    /\ written_ids = {}
    /\ fetched_ids = <<>>
    /\ auth_signalled = FALSE
    /\ sleep_seconds = 0
    /\ emit_count = 0
    /\ summarize_calls = 0
    /\ trunc_input = <<>>
    /\ trunc_target = 0
    /\ trunc_result = NoResult

ScenarioNext ==
    \/ SyncCycleStart(TRUE, TRUE, TRUE)
    \/ SyncDeltaFetch("ok", [m \in ScenarioMsgs |-> "ok"], [m \in ScenarioMsgs |-> "c1"])
    \/ SyncIngestOne(TRUE, TRUE, TRUE)
    \/ SyncCycleEnd(TRUE, TRUE)
    \/ ClaimJobs(1, TRUE)
    \/ FetchEmail(1, TRUE)
    \/ CheckCache(1, TRUE)
    \/ AcquirePermit(1)
    \/ CallMistral(1, OutcomeOk)
    \/ WriteSummary(1, TRUE)
    \/ MarkJobSucceeded(1, TRUE)
    \/ EmitSummaryReady(1, TRUE)

ScenarioSpec == ScenarioInit /\ [][ScenarioNext]_vars

\* One worker and one message, the model answering in every way, and the
\* API enqueueing the message's job at any time.
RetryNext ==
    \/ WorkerStep(1, TRUE, InvokeOutcomes)
    \/ ApiSaveEmail(1, "c1")
    \/ ApiEnqueueJob(1, TRUE)
    \/ Tick

RetrySpec == Init /\ [][RetryNext]_vars

\* The enqueue of a message that has no job yet.
EnqueueOnce(m) ==
    /\ \A i \in JobIds : ~Conflicts(ai_jobs[i], JOB_TYPE, m)
    /\ ApiEnqueueJob(m, TRUE)

\* One worker that runs for ever (ai_summarizer_entry.main) on jobs that are
\* enqueued once; store calls may fail, and a store call that is asked
\* again and again answers in the end; time passes.
LiveNext ==
    \/ \E ok \in BOOLEAN : WorkerStep(1, ok, PlainOutcomes)
    \/ \E m \in QueueMsgs : ApiSaveEmail(m, "c1")
    \/ \E m \in QueueMsgs : EnqueueOnce(m)
    \/ Tick

LiveSpec ==
    /\ Init
    /\ [][LiveNext]_vars
    /\ WF_vars(WorkerStep(1, TRUE, PlainOutcomes))
    /\ WF_vars(Tick)

\* One worker on batches of several jobs, each message enqueued once; every
\* store call answers, and the RPC may hand out a job dict that lacks a key.
BatchNext ==
    \/ WorkerStep(1, TRUE, PlainOutcomes)
    \/ MalformedJob(1)
    \/ \E m \in Msgs : ApiSaveEmail(m, "c1")
    \/ \E m \in Msgs : EnqueueOnce(m)
    \/ Tick

BatchSpec == Init /\ [][BatchNext]_vars

\* The workers on the job of one message whose email row may go from the
\* table, the API saving the email and enqueueing its job at any time.
MissingNext ==
    \/ \E w \in Workers : WorkerStep(w, TRUE, PlainOutcomes)
    \/ ApiSaveEmail(1, "c1")
    \/ ApiEnqueueJob(1, TRUE)
    \/ EmailRowGone(1)
    \/ Tick

MissingSpec == Init /\ [][MissingNext]_vars

\* The same with the job enqueued once: no enqueue meets a row of the job.
MissingOnceNext ==
    \/ \E w \in Workers : WorkerStep(w, TRUE, PlainOutcomes)
    \/ ApiSaveEmail(1, "c1")
    \/ EnqueueOnce(1)
    \/ EmailRowGone(1)
    \/ Tick

MissingOnceSpec == Init /\ [][MissingOnceNext]_vars

\* One worker on the job of one message that is saved with a long body, a
\* short body, an empty body or a long body that preprocessing makes short.
BypassContents == {"c1", "c4", "c5", "c6"}

BypassNext ==
    \/ WorkerStep(1, TRUE, PlainOutcomes)
    \/ \E c \in BypassContents : ApiSaveEmail(1, c)
    \/ ApiEnqueueJob(1, TRUE)
    \/ Tick

BypassSpec == Init /\ [][BypassNext]_vars

\* One worker on the job of one message, the model answering with a JSON
\* object of the sample or with a timeout.
PlainAnswers == {OutcomeOk, OutcomeBadUrgency, OutcomeItemsNoList, OutcomeNoUrgency,
                 OutcomeTimeout}
ResponseOutcomes == PlainAnswers \cup {OutcomeOtherKey}

ResponseNext ==
    \/ WorkerStep(1, TRUE, ResponseOutcomes)
    \/ ApiSaveEmail(1, "c1")
    \/ EnqueueOnce(1)
    \/ Tick

ResponseSpec == Init /\ [][ResponseNext]_vars

\* The same without the answer whose key names are not the required ones.
ResponsePlainNext ==
    \/ WorkerStep(1, TRUE, PlainAnswers)
    \/ ApiSaveEmail(1, "c1")
    \/ EnqueueOnce(1)
    \/ Tick

ResponsePlainSpec == Init /\ [][ResponsePlainNext]_vars

\* The sync loop and one worker with every store, provider and model call
\* answering (the audit insert may fail), and a notification sink that may
\* refuse the events of either.
NotifyNext ==
    \/ \E a \in BOOLEAN : SyncCycleStart(TRUE, TRUE, a)
    \/ SyncDeltaFetch("ok", [m \in Msgs |-> "ok"], [m \in Msgs |-> "c1"])
    \/ SyncFullFetch("ok", TRUE)
    \/ \E a \in BOOLEAN : SyncIngestOne(TRUE, TRUE, a)
    \/ \E e \in BOOLEAN : SyncCycleEnd(TRUE, e)
    \/ \E m \in Msgs : ProviderChange(m)
    \/ ClaimJobs(1, TRUE)
    \/ FetchEmail(1, TRUE)
    \/ CheckCache(1, TRUE)
    \/ AcquirePermit(1)
    \/ CallMistral(1, OutcomeOk)
    \/ WriteSummary(1, TRUE)
    \/ MarkJobSucceeded(1, TRUE)
    \/ \E e \in BOOLEAN : EmitSummaryReady(1, e)

NotifySpec == Init /\ [][NotifyNext]_vars

\* _preprocess_and_prepare, step 2, alone: preprocessed texts whose length
\* is around the two ceilings (4 characters to the token), blank or not.
LimitTexts ==
    [chars : (SAFE_INPUT_TOKENS * CHARS_PER_TOKEN - LimitMargin)
               .. (MAX_INPUT_TOKENS * CHARS_PER_TOKEN + LimitMargin),
     blank : BOOLEAN]

\* check_limits(preprocessed_text), and smart_truncate if not within_limits.
PrepareLimits ==
    /\ ~limit_result.done
    /\ LET r == check_limits(limit_text) IN
       limit_result' = [done |-> TRUE, within |-> r.within, estimate |-> r.estimate,
                        message |-> r.message, truncated |-> ~r.within]
    /\ UNCHANGED <<limit_text, trunc_input, trunc_target, trunc_result, aiVars,
                   policyVars, pipelineVars>>

\* The workers, the sync loop and smart_truncate as Init has them.
PipelineIdle ==
    /\ trunc_input = <<>> /\ trunc_target = 0 /\ trunc_result = NoResult
    /\ ai_jobs = <<>> /\ emails = {} /\ email_ai_summaries = {}
    /\ wpc = [w \in Threads |-> "idle"]
    /\ batch_size = [w \in Threads |-> AI_JOBS_BATCH]
    /\ batch = [w \in Threads |-> <<>>]
    /\ email_row = [w \in Threads |-> "none"]
    /\ err = [w \in Threads |-> "none"]
    /\ model_calls = [w \in Threads |-> 0]
    /\ api_semaphore = MAX_CONCURRENT_REQUESTS
    /\ retry_attempt = [w \in Threads |-> 0]
    /\ slept = [w \in Threads |-> <<>>]
    /\ call_kinds = [w \in Threads |-> <<>>]
    /\ invocations = NotCounted
    /\ summary_json = [w \in Threads |-> NoSummary]
    /\ emit_failed = [w \in Threads |-> FALSE]
    /\ job_log = <<>>
    /\ summarized_at_claim = [w \in Threads |-> <<>>]
    /\ history = <<0>>
    /\ gmail_sync_state = None /\ spc = "idle" /\ last_cursor = None
    /\ current_cursor = None /\ cycle_emails = <<>> /\ written_count = 0
    /\ changed_ids = {} /\ ingested = {} /\ position_at_start = None
    /\ audit_log = <<>> /\ emitted = FALSE /\ mode = "none" /\ written_ids = {}
    /\ fetched_ids = <<>> /\ auth_signalled = FALSE /\ sleep_seconds = 0
    /\ emit_count = 0 /\ summarize_calls = 0

\* Everything but the text of PrepareLimits as Init has it.
LimitInit ==
    /\ limit_text \in LimitTexts
    /\ limit_result = NoLimits
    /\ PipelineIdle
    /\ AiIdle
    /\ PolicyIdle

LimitNext == PrepareLimits

LimitSpec == LimitInit /\ [][LimitNext]_vars

(***************************************************************************)
(* AIState (services/ai_state.py) and Summarizer.summarize.  The class     *)
(* methods are operators from the class variables, the time and the two    *)
(* environment variables to the class variables afterwards; a call is one  *)
(* step and takes no time, the clock advances between calls.               *)
(***************************************************************************)
\* AIState._initialize: once; AI_ENABLED=false, then the key, decide.
initialize(cls, t, enabled, key) ==
    IF cls.initialized THEN cls
    ELSE IF ~enabled
    THEN [state |-> "DISABLED", initialized |-> TRUE, last_checked |-> t,
          degraded_since |-> 0]
    ELSE IF ~key
    THEN [state |-> "DEGRADED", initialized |-> TRUE, last_checked |-> t,
          degraded_since |-> t]
    ELSE [state |-> "ACTIVE", initialized |-> TRUE, last_checked |-> t,
          degraded_since |-> 0]

maybe_recheck_no_dwell(cls, t, enabled, key) ==
    IF ~cls.initialized \/ cls.state = "DISABLED" \/ t - cls.last_checked < TTL_SECONDS
    THEN cls
    ELSE IF ~enabled
    THEN [cls EXCEPT !.last_checked = t, !.state = "DISABLED", !.degraded_since = 0]
    ELSE IF cls.state = "DEGRADED" /\ key
    THEN [cls EXCEPT !.last_checked = t, !.state = "ACTIVE", !.degraded_since = 0]
    ELSE IF cls.state = "ACTIVE" /\ ~key
    THEN [cls EXCEPT !.last_checked = t, !.state = "DEGRADED", !.degraded_since = t]
    ELSE [cls EXCEPT !.last_checked = t]

\* AIState.maybe_recheck: nothing before the first access, nothing once
\* DISABLED, nothing within TTL_SECONDS of the last check; then the
\* environment is read again.
maybe_recheck(cls, t, enabled, key) ==
    IF ~cls.initialized THEN cls
    ELSE IF cls.state = "DISABLED" THEN cls
    ELSE IF t - cls.last_checked < TTL_SECONDS THEN cls
    ELSE LET checked == [cls EXCEPT !.last_checked = t] IN
         IF ~enabled
         THEN [checked EXCEPT !.state = "DISABLED", !.degraded_since = 0]
         ELSE IF cls.state = "DEGRADED"
         THEN IF ~key THEN checked
              ELSE IF t - cls.degraded_since < DEGRADED_DWELL_SECONDS THEN checked
              ELSE [checked EXCEPT !.state = "ACTIVE", !.degraded_since = 0]
         ELSE IF cls.state = "ACTIVE" /\ ~key
         THEN [checked EXCEPT !.state = "DEGRADED", !.degraded_since = t]
         ELSE checked

transition_to_degraded_from_any(cls, t, enabled, key) ==
    LET c == initialize(cls, t, enabled, key) IN
    IF c.state # "DEGRADED"
    THEN [c EXCEPT !.state = "DEGRADED", !.degraded_since = t]
    ELSE c

\* AIState.transition_to_degraded: never out of DISABLED, and the dwell
\* timer is set only when the state was not DEGRADED already.
transition_to_degraded(cls, t, enabled, key) ==
    LET c == initialize(cls, t, enabled, key) IN
    IF c.state = "DISABLED" THEN c
    ELSE IF c.state # "DEGRADED"
    THEN [c EXCEPT !.state = "DEGRADED", !.degraded_since = t]
    ELSE c

\* AIState.state: first access initializes, then the TTL-gated recheck.
state(cls, t, enabled, key) ==
    maybe_recheck(initialize(cls, t, enabled, key), t, enabled, key)

\* Ghost: when the state of after became DEGRADED, for a call made at t.
entered_after(before, after, t) ==
    IF after.state = "DEGRADED" /\ before.state # "DEGRADED" THEN t
    ELSE entered_degraded

\* A call of summarize that has returned is over; one that is inside the
\* provider call stays there.
SummarizeGoesOn ==
    IF summary_text = "calling"
    THEN UNCHANGED <<gate, summary_text, provider_called>>
    ELSE gate' = "none" /\ summary_text' = "none" /\ provider_called' = FALSE

\* A call that is neither state() nor summarize() leaves no return value.
NoReturn ==
    state_returned' = "none" /\ SummarizeGoesOn

\* time.time() advances.
ClockTick ==
    /\ clock + ClockStep <= ClockEnd
    /\ clock' = clock + ClockStep
    /\ NoReturn
    /\ UNCHANGED <<AIState, AI_ENABLED, MISTRAL_API_KEY, entered_degraded, client>>
    /\ UNCHANGED <<trunc_input, trunc_target, trunc_result, limitVars, policyVars,
                   pipelineVars>>

\* The environment of the process changes.
SetEnv(enabled, key) ==
    /\ <<enabled, key>> # <<AI_ENABLED, MISTRAL_API_KEY>>
    /\ AI_ENABLED' = enabled
    /\ MISTRAL_API_KEY' = key
    /\ NoReturn
    /\ UNCHANGED <<AIState, clock, entered_degraded, client>>
    /\ UNCHANGED <<trunc_input, trunc_target, trunc_result, limitVars, policyVars,
                   pipelineVars>>

\* A caller reads AIState.state().
CallState ==
    /\ AIState' = state(AIState, clock, AI_ENABLED, MISTRAL_API_KEY)
    /\ state_returned' = AIState'.state
    /\ entered_degraded' = entered_after(AIState, AIState', clock)
    /\ SummarizeGoesOn
    /\ UNCHANGED <<clock, AI_ENABLED, MISTRAL_API_KEY, client>>
    /\ UNCHANGED <<trunc_input, trunc_target, trunc_result, limitVars, policyVars,
                   pipelineVars>>

\* A caller calls AIState.maybe_recheck() itself.
CallMaybeRecheck ==
    /\ AIState' = maybe_recheck(AIState, clock, AI_ENABLED, MISTRAL_API_KEY)
    /\ entered_degraded' = entered_after(AIState, AIState', clock)
    /\ NoReturn
    /\ UNCHANGED <<clock, AI_ENABLED, MISTRAL_API_KEY, client>>
    /\ UNCHANGED <<trunc_input, trunc_target, trunc_result, limitVars, policyVars,
                   pipelineVars>>

\* A caller calls AIState.transition_to_degraded(reason).
CallTransitionToDegraded ==
    /\ AIState' = transition_to_degraded(AIState, clock, AI_ENABLED, MISTRAL_API_KEY)
    /\ entered_degraded' = entered_after(AIState, AIState', clock)
    /\ NoReturn
    /\ UNCHANGED <<clock, AI_ENABLED, MISTRAL_API_KEY, client>>
    /\ UNCHANGED <<trunc_input, trunc_target, trunc_result, limitVars, policyVars,
                   pipelineVars>>

SummarizeGateUngated ==
    /\ summary_text # "calling"
    /\ AIState' = state(AIState, clock, AI_ENABLED, MISTRAL_API_KEY)
    /\ state_returned' = AIState'.state
    /\ gate' = AIState'.state
    /\ entered_degraded' = entered_after(AIState, AIState', clock)
    /\ IF ~client
       THEN summary_text' = "demo" /\ provider_called' = FALSE
       ELSE summary_text' = "calling" /\ provider_called' = TRUE
    /\ UNCHANGED <<clock, AI_ENABLED, MISTRAL_API_KEY, client>>
    /\ UNCHANGED <<trunc_input, trunc_target, trunc_result, limitVars, policyVars,
                   pipelineVars>>

\* Summarizer.summarize(email_data) up to the provider call: the AIState
\* gate and the client test return the demo text, otherwise
\* client.chat.complete is called.
SummarizeGate ==
    /\ summary_text # "calling"
    /\ AIState' = state(AIState, clock, AI_ENABLED, MISTRAL_API_KEY)
    /\ state_returned' = AIState'.state
    /\ gate' = AIState'.state
    /\ entered_degraded' = entered_after(AIState, AIState', clock)
    /\ IF AIState'.state # "ACTIVE" \/ ~client
       THEN summary_text' = "demo" /\ provider_called' = FALSE
       ELSE summary_text' = "calling" /\ provider_called' = TRUE
    /\ UNCHANGED <<clock, AI_ENABLED, MISTRAL_API_KEY, client>>
    /\ UNCHANGED <<trunc_input, trunc_target, trunc_result, limitVars, policyVars,
                   pipelineVars>>

\* client.chat.complete returns (provider_ok) or raises: the except branch
\* calls AIState.transition_to_degraded and returns the error text.
ProviderReturns(provider_ok) ==
    /\ summary_text = "calling"
    /\ IF provider_ok
       THEN summary_text' = "content" /\ UNCHANGED AIState
       ELSE /\ summary_text' = "error"
            /\ AIState' = transition_to_degraded(AIState, clock, AI_ENABLED,
                                                  MISTRAL_API_KEY)
    /\ entered_degraded' = entered_after(AIState, AIState', clock)
    /\ state_returned' = "none"
    /\ UNCHANGED <<clock, AI_ENABLED, MISTRAL_API_KEY, client, gate, provider_called>>
    /\ UNCHANGED <<trunc_input, trunc_target, trunc_result, limitVars, policyVars,
                   pipelineVars>>

\* The process starts with any environment; the Summarizer was built with
\* or without a client.
AiInit ==
    /\ AIState = Uninitialized /\ clock = 0
    /\ AI_ENABLED \in BOOLEAN /\ MISTRAL_API_KEY \in BOOLEAN
    /\ state_returned = "none" /\ entered_degraded = 0
    /\ client \in BOOLEAN /\ gate = "none" /\ summary_text = "none"
    /\ provider_called = FALSE
    /\ LimitIdle
    /\ PolicyIdle
    /\ PipelineIdle

AiNext ==
    \/ ClockTick
    \/ \E enabled \in BOOLEAN, key \in BOOLEAN : SetEnv(enabled, key)
    \/ CallState
    \/ CallMaybeRecheck
    \/ CallTransitionToDegraded
    \/ SummarizeGate
    \/ \E provider_ok \in BOOLEAN : ProviderReturns(provider_ok)

AiSpec == AiInit /\ [][AiNext]_vars

(***************************************************************************)
(* ControlPlane._get_policy (infrastructure/control_plane.py).             *)
(***************************************************************************)
\* The values the global_policy row can hold.
Policies ==
    {EmptyPolicy,
     [worker_enabled |-> FALSE],
     [worker_enabled |-> FALSE, max_emails_per_cycle |-> 10],
     [worker_enabled |-> TRUE, max_emails_per_cycle |-> DEFAULT_MAX_EMAILS]}

\* dict.get(key, default)
get(dict, key, default) == IF key \in DOMAIN dict THEN dict[key] ELSE default

\* is_worker_enabled() and max_emails_per_cycle() on what _get_policy returned.
answers(policy) ==
    [is_worker_enabled |-> get(policy, "worker_enabled", TRUE),
     max_emails_per_cycle |-> get(policy, "max_emails_per_cycle", DEFAULT_MAX_EMAILS)]

\* self._policy_cache or {defaults}
cache_or_defaults(cache) == IF cache # EmptyPolicy THEN cache ELSE DefaultPolicy

\* An operator changes the global_policy row.
SetPolicy(policy) ==
    /\ policy # system_config
    /\ system_config' = policy
    /\ policy_answer' = EmptyPolicy /\ fetch_result' = "idle"
    /\ UNCHANGED <<policy_cache, last_fetch, last_good>>
    /\ UNCHANGED <<trunc_input, trunc_target, trunc_result, limitVars, aiVars,
                   pipelineVars>>

\* _get_policy(): the cache while it is fresh and not empty; otherwise the
\* store is asked, and fetch_ok is whether the query returns the row.
GetPolicy(fetch_ok) ==
    /\ IF clock - last_fetch < CACHE_TTL /\ policy_cache # EmptyPolicy
       THEN /\ policy_answer' = policy_cache
            /\ fetch_result' = "cached"
            /\ UNCHANGED <<policy_cache, last_fetch, last_good>>
       ELSE IF fetch_ok
       THEN /\ policy_cache' = system_config
            /\ last_fetch' = clock
            /\ policy_answer' = system_config
            /\ fetch_result' = "ok"
            /\ last_good' = [fetched |-> TRUE, at |-> clock, policy |-> system_config]
       ELSE /\ policy_answer' = cache_or_defaults(policy_cache)
            /\ fetch_result' = "failed"
            /\ UNCHANGED <<policy_cache, last_fetch, last_good>>
    /\ UNCHANGED system_config
    /\ UNCHANGED <<trunc_input, trunc_target, trunc_result, limitVars, aiVars,
                   pipelineVars>>

\* time.time() advances between two calls of _get_policy.
PolicyTick ==
    /\ clock + ClockStep <= ClockEnd
    /\ clock' = clock + ClockStep
    /\ policy_answer' = EmptyPolicy /\ fetch_result' = "idle"
    /\ UNCHANGED <<system_config, policy_cache, last_fetch, last_good>>
    /\ UNCHANGED <<AIState, AI_ENABLED, MISTRAL_API_KEY, state_returned, entered_degraded,
                   client, gate, summary_text, provider_called>>
    /\ UNCHANGED <<trunc_input, trunc_target, trunc_result, limitVars, pipelineVars>>

PolicyInit ==
    /\ system_config \in Policies
    /\ policy_cache = EmptyPolicy /\ last_fetch = 0
    /\ policy_answer = EmptyPolicy /\ fetch_result = "idle" /\ last_good = NeverFetched
    /\ AiIdle
    /\ LimitIdle
    /\ PipelineIdle

PolicyNext ==
    \/ PolicyTick
    \/ \E policy \in Policies : SetPolicy(policy)
    \/ \E fetch_ok \in BOOLEAN : GetPolicy(fetch_ok)

PolicySpec == PolicyInit /\ [][PolicyNext]_vars

(***************************************************************************)
(* Properties.                                                             *)
(***************************************************************************)
BatchIds(w) == {batch[w][k].id : k \in 1..Len(batch[w])}
Returned == UNION {BatchIds(w) : w \in Workers}
RECURSIVE SumOver(_, _)
SumOver(f, S) ==
    IF S = {} THEN 0
    ELSE LET x == CHOOSE y \in S : TRUE IN f[x] + SumOver(f, S \ {x})
\* What the workers holding a batch asked for, together.
Requested == SumOver(batch_size, {w \in Workers : batch[w] # <<>>})

\* C1: claims of concurrent workers never return one job to two of them;
\* every claim returns eligible jobs only (queued, run_after <= now), as many
\* as asked for or all of them, and takes them out of the eligible set; once
\* the workers together asked for at least as many jobs as were eligible,
\* the union of their batches is all of those jobs.
C1_ClaimExclusive ==
    [][/\ \A w1, w2 \in Workers : w1 # w2 => BatchIds(w1)' \cap BatchIds(w2)' = {}
       /\ \A w \in Workers : batch'[w] # batch[w] =>
             LET E == Eligible(ai_jobs, JOB_TYPE, now) IN
             /\ BatchIds(w)' \subseteq E
             /\ Cardinality(BatchIds(w)') = Len(batch'[w])
             /\ Len(batch'[w]) = Min(batch_size[w], Cardinality(E))
             /\ Eligible(ai_jobs', JOB_TYPE, now) = E \ BatchIds(w)'
       /\ Requested' >= Cardinality(Eligible(ai_jobs', JOB_TYPE, now)) + Cardinality(Returned')
             => Eligible(ai_jobs', JOB_TYPE, now) = {}
      ]_vars

\* Two workers hold a batch each, and the second to be served got fewer jobs
\* than it asked for because the other had taken them.
C1_Witness ==
    \E w1, w2 \in Workers :
        /\ w1 # w2
        /\ batch[w1] # <<>>
        /\ batch[w2] # <<>>
        /\ Len(batch[w2]) < batch_size[w2]
        /\ Len(batch[w1]) = batch_size[w1]

\* C2: a cycle that ends with a changed message it did not both write and
\* enqueue (its fetch, its write or its enqueue failed or was skipped) leaves
\* the stored cursor as it was.
C2_CursorHeldOnFailure ==
    [][(spc = "finish" /\ ~(changed_ids \subseteq ingested))
          => gmail_sync_state' = gmail_sync_state]_vars

\* C3: whenever a step changes the stored cursor, the new value is the
\* provider position the cycle read at its start.
C3_CursorIsStartPosition ==
    [][gmail_sync_state' # gmail_sync_state => gmail_sync_state' = position_at_start]_vars

\* A cycle has stored its cursor although the provider moved on while
\* the cycle ran or since.
C3_Witness ==
    /\ spc = "idle"
    /\ position_at_start # None
    /\ gmail_sync_state = position_at_start
    /\ gmail_sync_state > 1
    /\ history_id > position_at_start

\* C4: no two rows of ai_jobs have the same (job_type, account_id,
\* gmail_message_id); there is one account.
C4_OneRowPerTriple ==
    \A i, j \in JobIds :
        (/\ ai_jobs[i].job_type = ai_jobs[j].job_type
         /\ ai_jobs[i].gmail_message_id = ai_jobs[j].gmail_message_id) => i = j

\* Both messages have a job, and one of the jobs was enqueued again after a
\* failure: it is queued with no attempts but carries an error code.
C4_Witness ==
    /\ Len(ai_jobs) = NumMsgs
    /\ \E i \in JobIds :
          /\ ai_jobs[i].status = "queued"
          /\ ai_jobs[i].attempts = 0
          /\ ai_jobs[i].last_error_code # "none"

\* C5: an enqueue for the triple of a running job leaves the row as it is
\* (status, attempts, run_after, locked_by, locked_at).
C5_EnqueueKeepsRunning ==
    [][\A m \in QueueMsgs : ApiEnqueueJob(m, TRUE) =>
          \A i \in JobIds :
              (Conflicts(ai_jobs[i], JOB_TYPE, m) /\ ai_jobs[i].status = "running")
                  => ai_jobs'[i] = ai_jobs[i]]_vars

\* C6: no step changes the status of a row that is succeeded or dead.
C6_TerminalStatus ==
    [][\A i \in JobIds :
          ai_jobs[i].status \in {"succeeded", "dead"}
              => ai_jobs'[i].status = ai_jobs[i].status]_vars

\* C7: a step that makes a row succeeded or dead, or queued with one more
\* attempt, finds the row running and is taken by the worker that holds
\* its lock.
C7_ClaimedBeforeOutcome ==
    [][\A i \in JobIds :
          (\/ /\ ai_jobs'[i].status \in {"succeeded", "dead"}
              /\ ai_jobs'[i].status # ai_jobs[i].status
           \/ /\ ai_jobs'[i].status = "queued"
              /\ ai_jobs'[i].attempts = ai_jobs[i].attempts + 1)
          => /\ ai_jobs[i].status = "running"
             /\ \E w \in Workers :
                   /\ wpc[w] \in {"succeed", "fail"}
                   /\ wpc'[w] # wpc[w]
                   /\ CurJob(w).id = i
                   /\ ai_jobs[i].locked_by = w]_vars

\* C8: a failure that queues the job again sets run_after later than the
\* failure before it did (instants are whole minutes here, so later by less
\* than a minute shows as equal and only an earlier run_after is refused); a
\* failure makes the job dead only with AI_MAX_ATTEMPTS attempts; a dead row
\* is never touched again.
C8_BackoffThenDead ==
    [][/\ \A w \in Workers : (wpc[w] = "fail" /\ batch'[w] # batch[w]) =>
             LET i == CurJob(w).id IN
             /\ (ai_jobs'[i].status = "queued" /\ job_log[i].failed_until # NoTime)
                   => ai_jobs'[i].run_after >= job_log[i].failed_until
             /\ ai_jobs'[i].status = "dead" => ai_jobs'[i].attempts = AI_MAX_ATTEMPTS
       /\ \A i \in JobIds : ai_jobs[i].status = "dead" => ai_jobs'[i] = ai_jobs[i]
      ]_vars

\* C9: a succeeded job that no worker is processing any more has a summary
\* row whose input_hash is the hash computed by a processing that marked it
\* succeeded.
C9_SucceededHasSummary ==
    \A i \in JobIds :
        (ai_jobs[i].status = "succeeded" /\ \A w \in Workers : i \notin BatchIds(w)) =>
            \E r \in email_ai_summaries :
                /\ r.gmail_message_id = ai_jobs[i].gmail_message_id
                /\ r.input_hash \in job_log[i].succeeded_hash

\* C10: a processing claimed after the job had succeeded with a model call
\* for some input makes no model call for that input while the message's
\* subject, sender and preprocessed body have not changed.
C10_CacheShortCircuit ==
    [][\A w \in Workers : model_calls'[w] > model_calls[w] =>
          job_input_hash(email_row[w]) \notin
              (Head(summarized_at_claim[w]) \cap job_log[CurJob(w).id].summarized)]_vars

\* C11: a cycle that finds the stored cursor equal to the provider's
\* position ends at once (no list_history, no get_message), leaves every
\* table of the store as it is (ai_jobs, emails, email_ai_summaries,
\* gmail_sync_state, audit_log) and emits no event.
C11_NoOpWritesNothing ==
    [][\A a, b, c \in BOOLEAN : (SyncCycleStart(a, b, c) /\ mode' = "noop") =>
          /\ spc' = "idle"
          /\ fetched_ids' = <<>>
          /\ emitted' = FALSE
          /\ UNCHANGED <<ai_jobs, emails, email_ai_summaries, gmail_sync_state, audit_log>>
      ]_vars

\* C12: when list_history reports the cursor too old, the cycle goes to the
\* bounded full fetch, and at its end it has written the messages the
\* mailbox held when the cycle started (at most 30 of them).
C12_StaleCursorFullFetch ==
    [][/\ (spc = "delta" /\ mode' = "stale") => spc' = "full"
       /\ (spc = "finish" /\ mode = "stale"
              /\ Cardinality(MailboxAt(position_at_start)) <= FULL_SYNC_MAX_EMAILS)
             => MailboxAt(position_at_start) \subseteq written_ids
      ]_vars

\* C13: a cycle that found no stored cursor fetched at most 30 messages, and
\* when it ends it has written and enqueued every message the mailbox held
\* when it started (at most 30) and stores the position it read.
C13_FirstRunFullFetch ==
    [][\A e \in BOOLEAN : (SyncCycleEnd(TRUE, e) /\ mode = "first") =>
          /\ Cardinality(MailboxAt(position_at_start)) <= FULL_SYNC_MAX_EMAILS
                => MailboxAt(position_at_start) \subseteq (written_ids \cap ingested)
          /\ gmail_sync_state' = position_at_start
      ]_vars

\* C14: the delta fetch calls get_message for exactly the ids of the
\* messagesAdded records after the stored cursor, once each; a delta cycle
\* with no such id writes no email, enqueues no job, emits no event and (the
\* store accepting the write) stores the position it read at its start.
C14_DeltaFetchesChangedOnly ==
    [][/\ (spc = "delta" /\ spc' \in {"ingest", "finish"}) =>
             LET added == {history[k] : k \in (last_cursor + 1)..Len(history)} \ {0} IN
             /\ {fetched_ids'[k] : k \in 1..Len(fetched_ids')} = added
             /\ Len(fetched_ids') = Cardinality(added)
       /\ \A e \in BOOLEAN :
             (SyncCycleEnd(TRUE, e) /\ mode = "delta" /\ changed_ids = {}) =>
                /\ written_ids = {}
                /\ ingested = {}
                /\ UNCHANGED <<emails, ai_jobs>>
                /\ emitted' = FALSE
                /\ gmail_sync_state' = position_at_start
      ]_vars

\* A delta cycle has ended whose change list held only changes of other
\* types: nothing is stored, no event went out, and the cursor moved on to
\* the position the cycle read.
C14_Witness ==
    /\ spc = "idle"
    /\ mode = "delta"
    /\ position_at_start > 1
    /\ gmail_sync_state = position_at_start
    /\ \A k \in 1..position_at_start : history[k] = 0
    /\ emails = {}
    /\ ai_jobs = <<>>
    /\ ~emitted

\* C15: when the ingest loop of a cycle is over, every message the cycle
\* wrote has a job the cycle enqueued.
C15_JobPerWrittenMessage ==
    spc = "finish" => written_ids \subseteq ingested

\* C16: no two workers are processing the same job at the same time.
C16_OneWorkerPerJob ==
    \A w1, w2 \in Workers :
        (w1 # w2 /\ batch[w1] # <<>> /\ batch[w2] # <<>>) => CurJob(w1).id # CurJob(w2).id

\* C17: every job that exists is succeeded or dead at some later time.
C17_EveryJobEnds ==
    \A i \in 1..NumQueueMsgs :
        (Len(ai_jobs) >= i) ~> (Len(ai_jobs) >= i /\ ai_jobs[i].status \in {"succeeded", "dead"})

\* The threads inside the with block of _call_mistral.
InFlight == {w \in Threads : wpc[w] = "invoke"}

\* C18: at most MAX_CONCURRENT_REQUESTS threads are inside the with block,
\* and the permits left are exactly those no thread inside holds: a thread
\* that left (summary, failure or ladder exhausted) gave its permit back.
C18_AtMostThreeInFlight ==
    /\ Cardinality(InFlight) <= 3
    /\ api_semaphore = 3 - Cardinality(InFlight)

\* A thread came out of _call_mistral with its ladder exhausted, and three
\* threads, the last to get a permit among them, are inside.
C18_Witness ==
    /\ Cardinality(InFlight) = 3
    /\ \E w \in Threads : wpc[w] = "fail" /\ Len(call_kinds[w]) = 4

AllRateLimit(kinds) == \A k \in 1..Len(kinds) : kinds[k] = "rate_limit"

C20_OtherErrorFailsAtOnce ==
    [][\A w \in Workers :
          /\ (model_calls'[w] > model_calls[w]
                  /\ call_kinds'[w][Len(call_kinds'[w])] = "error") =>
                /\ wpc'[w] = "fail"
                /\ err'[w] = "MISTRAL_FAILED"
                /\ slept'[w] = slept[w]
          /\ (wpc[w] = "fail" /\ err[w] = "MISTRAL_FAILED" /\ batch'[w] # batch[w]) =>
                LET row == ai_jobs'[CurJob(w).id] IN
                /\ row.attempts = CurJob(w).attempts + 1
                /\ \/ row.status = "dead" /\ row.attempts >= AI_MAX_ATTEMPTS
                   \/ row.status = "queued" /\ row.run_after = now + Pow2(row.attempts)
      ]_vars

\* C21: a cycle in which a provider call answered that the grant is revoked
\* or invalid has, when it ends, written no message and enqueued no job,
\* emits no event, leaves the stored cursor as it is, and sleeps 600 seconds
\* (not 60) before the next cycle.
C21_AuthErrorQuietBackoff ==
    [][(spc # "idle" /\ spc' = "idle" /\ auth_signalled') =>
          /\ written_ids = {}
          /\ ingested = {}
          /\ emitted' = FALSE
          /\ gmail_sync_state' = gmail_sync_state
          /\ sleep_seconds' = 600
      ]_vars

\* C22: for a text whose estimated tokens exceed the target, smart_truncate
\* returns a text whose estimated tokens are at most the target and which
\* holds a truncation marker, whatever the number of lines and also when the
\* head-and-tail cut is still over the target.
C22_TruncateWithinTarget ==
    (trunc_result.done /\ estimate_tokens_chars(trunc_input) > trunc_target) =>
        /\ estimate_tokens_chars(trunc_result.text) <= trunc_target
        /\ \/ Contains(trunc_result.text, CUT_MARKER)
           \/ Contains(trunc_result.text, HARD_MARKER)

\* C23: a cycle that ends (the notification sink accepting events) has
\* emitted emails_updated exactly if it wrote at least one message, and the
\* count of the event is the number of messages it wrote.
C23_EventIffWritten ==
    [][(spc # "idle" /\ spc' = "idle" /\ \A s \in BOOLEAN : ~SyncCycleEnd(s, FALSE)) =>
          /\ emitted' <=> (written_count > 0)
          /\ emitted' => (emit_count' = written_count /\ emit_count' = Cardinality(written_ids))
      ]_vars

\* The delta cycle has ended and the worker has nothing left to do.
Drained ==
    /\ spc = "idle"
    /\ mode = "delta"
    /\ wpc[1] = "idle"
    /\ \A i \in JobIds : ai_jobs[i].status \notin {"queued", "running"}

\* C24: from a stored cursor behind the provider's position and a change
\* list of 3 messagesAdded records, one of whose messages has a summary row
\* with the matching hash: once the cycle has ended and the queue is drained
\* there are 3 email rows, 3 jobs, all succeeded, 3 summary rows, the cursor
\* is the provider's position, and 2 model invocations were made; at no
\* time were there more.
C24_DeltaScenario ==
    /\ invocations <= 2
    /\ Drained =>
          /\ Cardinality(emails) = 3
          /\ {r.gmail_message_id : r \in emails} = ScenarioMsgs
          /\ Len(ai_jobs) = 3
          /\ \A i \in JobIds : ai_jobs[i].status = "succeeded"
          /\ Cardinality(email_ai_summaries) = 3
          /\ {r.gmail_message_id : r \in email_ai_summaries} = ScenarioMsgs
          /\ gmail_sync_state = history_id
          /\ invocations = 2

\* The scenario has run to its end.
C24_Witness ==
    /\ Drained
    /\ Len(ai_jobs) = 3
    /\ invocations = 2

\* C25: a failure applied to a running job whose attempts plus one are
\* below AI_MAX_ATTEMPTS makes the row queued with locked_by and locked_at
\* cleared, attempts one more than the row had, last_error_code the code
\* given, and run_after 2, 4, 8 or 16 minutes from now for the first to the
\* fourth failure (2 ** attempts).
C25_FailRequeues ==
    [][\A w \in Workers :
          (/\ MarkJobFailed(w, TRUE)
           /\ ai_jobs[CurJob(w).id].status = "running"
           /\ ai_jobs[CurJob(w).id].attempts + 1 < AI_MAX_ATTEMPTS) =>
             LET old == ai_jobs[CurJob(w).id]
                 row == ai_jobs'[CurJob(w).id]
             IN /\ row.status = "queued"
                /\ row.locked_by = None
                /\ row.locked_at = NoTime
                /\ row.attempts = old.attempts + 1
                /\ row.last_error_code = err[w]
                /\ row.run_after = now + <<2, 4, 8, 16>>[row.attempts]
      ]_vars

\* C26: a worker that is about to claim has left none of the jobs of its
\* earlier claims running: each was brought to succeeded, to queued for a
\* retry or to dead, also when the processing of a job of the batch met an
\* error or a malformed job row.
C26_BatchFullyProcessed ==
    \A w \in Workers :
        wpc[w] = "idle" =>
            \A i \in JobIds : ~(ai_jobs[i].status = "running" /\ ai_jobs[i].locked_by = w)

\* The cache gate of worker w would answer a hit now.
CacheHit(w) ==
    check_cache(email_ai_summaries, CurJob(w).gmail_message_id, job_input_hash(email_row[w]))

\* C27: the cache check of a job takes no permit and is made by a worker
\* that holds none; a hit goes straight to _mark_job_succeeded; only a
\* check that missed leads to _call_mistral, and a permit is taken only
\* there, so that the permits taken are those of the workers inside the
\* with block.
C27_CacheBeforePermit ==
    [][/\ \A w \in Workers :
             /\ (wpc[w] = "cache" /\ wpc'[w] # "cache") =>
                    /\ api_semaphore' = api_semaphore
                    /\ wpc'[w] = IF CacheHit(w) THEN "succeed" ELSE "call"
             /\ (wpc'[w] = "call" /\ wpc[w] # "call") => (wpc[w] = "cache" /\ ~CacheHit(w))
             /\ (wpc'[w] = "invoke" /\ wpc[w] # "invoke") =>
                    (wpc[w] = "call" /\ api_semaphore' = api_semaphore - 1)
       /\ api_semaphore' < api_semaphore =>
             \E w \in Workers : wpc[w] = "call" /\ wpc'[w] = "invoke"
       /\ api_semaphore' =
             MAX_CONCURRENT_REQUESTS - Cardinality({w \in Workers : wpc'[w] = "invoke"})
      ]_vars

\* A worker went from a cache hit to _mark_job_succeeded with all
\* permits free, while the other worker is processing the same job.
C27_Witness ==
    \E w1, w2 \in Workers :
        /\ w1 # w2
        /\ wpc[w1] = "succeed"
        /\ model_calls[w1] = 0
        /\ ~should_bypass_summarization(preprocess_and_prepare(Body(email_row[w1])))
        /\ api_semaphore = MAX_CONCURRENT_REQUESTS
        /\ wpc[w2] \in {"fetch", "cache"}

\* C28: a sync cycle makes no model-provider call, in the first-run and the
\* fallback full fetch as in the delta fetch.
C28_IngestionNeverSummarizes ==
    summarize_calls = 0

\* The loop can start a cycle.
CanStartCycle == ENABLED (\E a, b \in BOOLEAN : SyncCycleStart(a, b, FALSE))

\* C29: whatever provider or store call of a cycle fails, the loop is still
\* running: a cycle that ends, ends in the sleep of the loop (60, 120 or 600
\* seconds; 120 after an exception that reached the handler of the loop),
\* and from there the next cycle can start.
C29_LoopSurvivesFailures ==
    /\ spc \in {"idle", "delta", "full", "ingest", "finish"}
    /\ spc = "idle" =>
          /\ sleep_seconds \in {0, 60, 120, 600}
          /\ mode # "none" => sleep_seconds # 0
          /\ CanStartCycle

\* A cycle that had written an email met a failing save_email: the loop is
\* in its 120 s back-off and can start the next cycle.
C29_Witness ==
    /\ spc = "idle"
    /\ sleep_seconds = 120
    /\ emails # {}
    /\ CanStartCycle

\* The email row of the job worker w is processing is not in the table.
EmailMissing(w) ==
    \A r \in emails : r.gmail_message_id # CurJob(w).gmail_message_id

\* C30: when the email row of a claimed job is not in the table, the fetch
\* step goes straight to the failure with EMAIL_NOT_FOUND: nothing is
\* preprocessed, no cache check, permit, model call or summary write is
\* made; and the failure leaves the running row with last_error_code
\* EMAIL_NOT_FOUND and attempts one more than it had.
C30_MissingEmailFails ==
    [][\A w \in Workers :
          /\ (FetchEmail(w, TRUE) /\ EmailMissing(w)) =>
                /\ wpc'[w] = "fail"
                /\ err'[w] = "EMAIL_NOT_FOUND"
                /\ email_row'[w] = email_row[w]
                /\ UNCHANGED <<ai_jobs, email_ai_summaries, model_calls, api_semaphore,
                               call_kinds>>
          /\ (/\ MarkJobFailed(w, TRUE)
              /\ err[w] = "EMAIL_NOT_FOUND"
              /\ ai_jobs[CurJob(w).id].status = "running") =>
                LET old == ai_jobs[CurJob(w).id]
                    row == ai_jobs'[CurJob(w).id]
                IN /\ row.attempts = old.attempts + 1
                   /\ row.last_error_code = "EMAIL_NOT_FOUND"
                   /\ UNCHANGED <<email_ai_summaries, model_calls, api_semaphore>>
      ]_vars

\* A job has been failed with EMAIL_NOT_FOUND while its email row is gone.
C30_Reached ==
    /\ emails = {}
    /\ \E i \in JobIds : /\ ai_jobs[i].last_error_code = "EMAIL_NOT_FOUND"
                         /\ ai_jobs[i].attempts >= 2

\* The email row worker w fetched has a prepared body below the threshold.
TooShort(w) ==
    /\ email_row[w] # "none"
    /\ should_bypass_summarization(preprocess_and_prepare(Body(email_row[w])))

\* The first 200 characters of the raw body.
RawPrefix(body) == first_chars(body, 200)

\* The first 200 characters of the raw body, or the text "Empty email" for
\* an empty body.
RawPrefixOrPlaceholder(body) ==
    IF body = "" THEN first_chars("Empty email", 11) ELSE first_chars(body, 200)

\* The job of a message whose prepared content is below 50 tokens goes from
\* the fetch to the summary write without a model call, the row written has
\* the overview Overview(raw body), no action items and urgency low, and
\* the job is then marked succeeded.
BypassWritesTrivialSummary(Overview(_)) ==
    \A w \in Workers :
          /\ (FetchEmail(w, TRUE) /\ email_row'[w] # "none"
                 /\ should_bypass_summarization(preprocess_and_prepare(Body(email_row'[w])))) =>
                /\ wpc'[w] = "write"
                /\ model_calls'[w] = 0
          /\ (WriteSummary(w, TRUE) /\ TooShort(w)) =>
                /\ model_calls[w] = 0
                /\ wpc'[w] = "succeed"
                /\ \E r \in email_ai_summaries' :
                      /\ r.gmail_message_id = CurJob(w).gmail_message_id
                      /\ r.summary_json.overview = Overview(Body(email_row[w]))
                      /\ r.summary_json.action_items = <<>>
                      /\ r.summary_json.urgency = "low"
          /\ (MarkJobSucceeded(w, TRUE) /\ TooShort(w)) =>
                /\ model_calls[w] = 0
                /\ ai_jobs'[CurJob(w).id].status = "succeeded"

C32_CoerceOrFail ==
    [][\A w \in Workers :
          /\ \A o \in ResponseOutcomes :
                (CallMistral(w, o) /\ o.kind = "ok") =>
                    LET json == ResponseOf(o) IN
                    /\ (has_required_keys(json) /\ json.urgency \notin URGENCY_VALUES) =>
                          /\ wpc'[w] = "write"
                          /\ summary_json'[w].urgency = "medium"
                    /\ ~has_required_keys(json) =>
                          /\ wpc'[w] = "fail"
                          /\ err'[w] = "MISTRAL_FAILED"
                          /\ email_ai_summaries' = email_ai_summaries
          /\ (WriteSummary(w, TRUE) /\ model_calls[w] > 0) =>
                /\ wpc'[w] = "succeed"
                /\ \E r \in email_ai_summaries' :
                      /\ r.gmail_message_id = CurJob(w).gmail_message_id
                      /\ r.summary_json = summary_json[w]
                      /\ r.summary_json.urgency \in URGENCY_VALUES
          /\ (MarkJobSucceeded(w, TRUE) /\ model_calls[w] > 0) =>
                ai_jobs'[CurJob(w).id].status = "succeeded"
          /\ (MarkJobFailed(w, TRUE) /\ err[w] = "MISTRAL_FAILED") =>
                /\ ai_jobs'[CurJob(w).id].status \in {"queued", "dead"}
                /\ ai_jobs'[CurJob(w).id].last_error_code = "MISTRAL_FAILED"
                /\ email_ai_summaries' = email_ai_summaries
      ]_vars

\* A job has succeeded with the summary of an answer whose urgency was
\* outside the enum.
C32_Reached ==
    /\ Len(ai_jobs) = 1 /\ ai_jobs[1].status = "succeeded"
    /\ \E r \in email_ai_summaries : r.summary_json.urgency = "medium"

\* C33: a notification that fails does not fail the cycle.  In the sync
\* loop the cycle ends as it does otherwise: the emails and jobs written
\* stay, the cursor read at the start of the cycle is saved, and the loop
\* sleeps its 60 s.  In the summarizer worker the job stays as it was marked
\* and its summary row stays; the worker goes on to the next job.
C33_NotifyFailureHarmless ==
    [][/\ (SyncCycleEnd(TRUE, FALSE) /\ written_count > 0) =>
             /\ emails' = emails
             /\ ai_jobs' = ai_jobs
             /\ spc' = "idle"
             /\ sleep_seconds' = CYCLE_INTERVAL_SECONDS
             /\ current_cursor # None => gmail_sync_state' = current_cursor
       /\ \A w \in Workers :
             EmitSummaryReady(w, FALSE) =>
                /\ ai_jobs' = ai_jobs
                /\ email_ai_summaries' = email_ai_summaries
                /\ wpc'[w] \in {"fetch", "idle"}
                /\ \A i \in JobIds :
                      ai_jobs[i].status = "succeeded" => ai_jobs'[i].status = "succeeded"
      ]_vars

\* A delta cycle wrote message 1, its emails_updated event was refused and
\* the cursor was saved; the worker summarized the message, its
\* ai_summary_ready event was refused and the job is succeeded.
C33_Witness ==
    /\ history = <<0, 1>>
    /\ spc = "idle" /\ mode = "delta" /\ ~emitted
    /\ gmail_sync_state = 2
    /\ \E r \in emails : r.gmail_message_id = 1
    /\ wpc[1] = "idle" /\ emit_failed[1]
    /\ Len(ai_jobs) = 1 /\ ai_jobs[1].status = "succeeded"
    /\ \E r \in email_ai_summaries : r.gmail_message_id = 1

\* C34: the emails table never holds two rows of one message, and the save
\* of a message that has a row leaves the number of rows as it was and the
\* row with the content saved, in every mode of the sync cycle and however
\* often a message comes again.
C34_OneRowPerMessage ==
    /\ \A r1, r2 \in emails : r1.gmail_message_id = r2.gmail_message_id => r1 = r2
    /\ spc = "ingest" =>
          \A c \in Contents :
              LET m_id == Head(cycle_emails).message_id
                  tbl == save_email(emails, m_id, c)
              IN (m_id # None /\ \E r \in emails : r.gmail_message_id = m_id) =>
                    /\ Cardinality(tbl) = Cardinality(emails)
                    /\ \E r \in tbl : r.gmail_message_id = m_id /\ r.content = c
                    /\ \A r \in emails : r.gmail_message_id # m_id => r \in tbl

\* Two cycles have each written one message and the table holds one row:
\* the second cycle ingested the message of the first again.
C34_Witness ==
    /\ Len(audit_log) = 2
    /\ \A k \in 1..2 : audit_log[k].action = "ingestion_complete" /\ audit_log[k].count = 1
    /\ Cardinality(emails) = 1
    /\ spc = "idle"

\* C35: check_limits answers within-limits exactly for the texts estimated
\* at no more than the safe-input ceiling of 3850 tokens (4000 less the 150
\* of the prompt), so that _preprocess_and_prepare truncates every text
\* estimated above 3850 tokens.
C35_SafeCeiling ==
    limit_result.done =>
        /\ limit_result.within <=> (limit_result.estimate <= SAFE_INPUT_TOKENS)
        /\ (limit_result.estimate > SAFE_INPUT_TOKENS) => limit_result.truncated

\* C36: once AIState is DISABLED no call of state(), maybe_recheck() or
\* transition_to_degraded() changes it, whatever the environment and however
\* much time passes.
C36_DisabledTerminal ==
    [][AIState.state = "DISABLED" => AIState'.state = "DISABLED"]_vars

\* DISABLED, the environment enabled again with a key, the TTL long past,
\* and state() just called.
C36_Witness ==
    /\ AIState.state = "DISABLED" /\ AI_ENABLED /\ MISTRAL_API_KEY
    /\ clock - AIState.last_checked >= DEGRADED_DWELL_SECONDS
    /\ state_returned = "DISABLED"

\* C37: DEGRADED becomes ACTIVE only when 300 s have passed since the state
\* became DEGRADED, the key is present and 120 s have passed since the last
\* check; and a call made while DEGRADED that leaves the state DEGRADED
\* leaves the dwell timer where it was, at the time the state became DEGRADED.
C37_DwellBeforeActive ==
    [][/\ (AIState.state = "DEGRADED" /\ AIState'.state = "ACTIVE") =>
            /\ clock - entered_degraded >= DEGRADED_DWELL_SECONDS
            /\ MISTRAL_API_KEY
            /\ clock - AIState.last_checked >= TTL_SECONDS
       /\ (AIState.state = "DEGRADED" /\ AIState'.state = "DEGRADED") =>
            /\ AIState'.degraded_since = AIState.degraded_since
            /\ AIState.degraded_since = entered_degraded]_vars

\* state() has just made the state ACTIVE again after a DEGRADED period
\* that began after the start.
C37_Witness ==
    /\ AIState.state = "ACTIVE" /\ state_returned = "ACTIVE"
    /\ AIState.last_checked = clock
    /\ entered_degraded > 0

\* C38: whenever AI_ENABLED is false, state() returns DISABLED, at the first
\* access and at any later time.
C38_DisabledWheneverFalse ==
    (state_returned # "none" /\ ~AI_ENABLED) => state_returned = "DISABLED"

\* summarize made no provider call unless its gate read ACTIVE, and
\* returned the demo text instead.
GateHeld ==
    summary_text # "none" =>
        (gate # "ACTIVE" => (~provider_called /\ summary_text = "demo"))

\* C39 as stated: summarize makes no provider call when state() is not
\* ACTIVE and returns the demo text; after a provider exception the state
\* is DEGRADED.
C39_DegradedAfterException ==
    /\ GateHeld
    /\ summary_text = "error" => (provider_called /\ AIState.state = "DEGRADED")

\* C39 amended: after a provider exception the state is DEGRADED, or
\* DISABLED when it became DISABLED while the provider call was made; in
\* neither is it ACTIVE, and no provider call is made unless the gate read
\* ACTIVE.
C39_NotActiveAfterException ==
    /\ GateHeld
    /\ summary_text = "error" =>
           (provider_called /\ AIState.state \in {"DEGRADED", "DISABLED"})

\* The gate read ACTIVE, the provider call raised, and the state became
\* DEGRADED at that time.
C39_Witness ==
    /\ summary_text = "error" /\ gate = "ACTIVE" /\ provider_called
    /\ AIState.state = "DEGRADED" /\ entered_degraded = clock /\ clock > 0

\* When the fetch failed, _get_policy answered as the last policy fetched
\* successfully, or as the defaults if none was.
FailOpen ==
    fetch_result = "failed" =>
        answers(policy_answer) =
            IF ~last_good.fetched THEN answers(DefaultPolicy)
            ELSE answers(last_good.policy)

\* Within CACHE_TTL of a successful fetch _get_policy answered the policy
\* fetched, without asking the store.
CacheFresh ==
    (/\ fetch_result \in {"cached", "failed"} /\ last_good.fetched
     /\ clock - last_good.at < CACHE_TTL) =>
        (fetch_result = "cached" /\ policy_answer = last_good.policy)

\* C40: when the policy fetch fails the control plane answers with the last
\* policy fetched successfully, or with the defaults (worker enabled, 50 per
\* cycle) if none was ever fetched; within 60 seconds of a successful fetch
\* it answers from the cache without calling the store.
C40_FailOpenAndCached == FailOpen /\ CacheFresh

====
